---- MODULE Spec2Model ----
(***************************************************************************)
(* Model of the arbitrage engine of OmniDeFi-Nexus: the ArbitrageService   *)
(* of server/services/arbitrage.ts (the class the HTTP routes construct),  *)
(* the MemStorage opportunity map it persists to, and the OkxService call  *)
(* it makes after a trade.                                                 *)
(*                                                                         *)
(* The repository holds a second copy of the service under                 *)
(* Track1_Arbitrage/ that no route constructs; it is not the subject of    *)
(* this model.  Where it differs, executeTrade of the copy looks the       *)
(* opportunity up before it takes a slot, has no isActive check, compares  *)
(* the gross cached spread with the threshold, and records a summary only  *)
(* when both legs have been sent.                                          *)
(*                                                                         *)
(* The service runs on one JavaScript event loop.  Every async method is   *)
(* modelled as the sequence of its synchronous segments: one action per    *)
(* segment between two awaits.  A public method may be called at any time, *)
(* also between two segments of a call in flight, so segments of different *)
(* calls interleave.  The collaborators are the ones the service           *)
(* constructs, and none of their promises rejects: the sixteen simulated   *)
(* adapters of initializeExchanges, the MemStorage singleton and           *)
(* OkxService.  A storage call takes effect when it is made.  getPrices    *)
(* has no await: the sixteen promises of an updatePrices fan-out are       *)
(* settled when the fan-out is made, and their continuations, queued one   *)
(* behind the other, write the cache in one run of the microtask queue.    *)
(* Only the adapter's executeTrade and OkxService.executeArbitrage wait on *)
(* a timer.  A getPrices that rejects is an input for the catch of         *)
(* updatePrices alone.                                                     *)
(*                                                                         *)
(* Numbers.  Every JavaScript number that is a price, an amount of money,  *)
(* an amount of an asset, a percentage, a rate or a confidence is an IEEE  *)
(* 754 double here as it is there, with the arithmetic of the language     *)
(* (round to nearest, ties to even): see the sections on numbers below.    *)
(* Counters, identifiers, risk scores and times are integers.              *)
(***************************************************************************)
EXTENDS Integers, Sequences, FiniteSets, TLC

(***************************************************************************)
(* Bounds of the model (not program constants).                            *)
(***************************************************************************)
\* number of executeTrade calls a behaviour may make
MaxAttempts == 4
\* number of opportunities the store may hold
MaxOpps == 5
\* number of async calls, other than executeTrade, in flight at a time
MaxTasks == 2
\* number of times the clock advances in a behaviour
MaxAdvances == 1
\* number of records other than opportunities (users, gas savings, AI
\* conversations, ...) that are created in the store in a behaviour
MaxOtherCreates == 1

(***************************************************************************)
(* Program constants.                                                      *)
(***************************************************************************)
\* maxConcurrentExecutions
maxConcurrentExecutions == 3
\* MemStorage.currentId after the constructor created the demo user
firstOpportunityId == 2

Attempts == 1 .. MaxAttempts

(***************************************************************************)
(* The exchange registry (initializeExchanges), in registration order:     *)
(* the DEXes, then the CEXes.                                              *)
(***************************************************************************)
dexes ==
    << "Uniswap", "SushiSwap", "Curve", "PancakeSwap", "Balancer", "Jupiter",
       "Raydium", "Trader Joe" >>

cexes ==
    << "OKX", "Binance", "Coinbase", "Kraken", "Kucoin", "Bybit", "Huobi",
       "Bitfinex" >>

monitoredExchanges == dexes \o cexes

ExchangeNames == { monitoredExchanges[i] : i \in DOMAIN monitoredExchanges }

\* exchange?.type || 'DEX'
getExchangeType(name) ==
    IF \E i \in DOMAIN cexes : cexes[i] = name THEN "CEX" ELSE "DEX"

monitoredAssets == << "BTC", "ETH", "SOL", "MATIC", "AVAX", "BNB", "ARB" >>

AssetNames == { monitoredAssets[i] : i \in DOMAIN monitoredAssets }

(***************************************************************************)
(* Numbers: the arithmetic of JavaScript numbers.                          *)
(***************************************************************************)
(***************************************************************************)
(* Unsigned integers of any size: sequences of digits in base 2^15, the    *)
(* lowest digit first, without leading zero digits (0 is << >>).           *)
(***************************************************************************)
digitBase == 2 ^ 15

TwoTo(k) == 2 ^ k

Min2(x, y) == IF x < y THEN x ELSE y

RECURSIVE Trim(_)
Trim(a) ==
    IF a = << >> THEN a
    ELSE IF a[Len(a)] = 0 THEN Trim(SubSeq(a, 1, Len(a) - 1))
    ELSE a

DigitAt(a, i) == IF i <= Len(a) THEN a[i] ELSE 0

RECURSIVE BigAddFrom(_, _, _, _)
BigAddFrom(a, b, i, carry) ==
    IF i > Len(a) /\ i > Len(b)
    THEN IF carry = 0 THEN << >> ELSE << carry >>
    ELSE LET x == DigitAt(a, i) + DigitAt(b, i) + carry
         IN  << x % digitBase >> \o BigAddFrom(a, b, i + 1, x \div digitBase)

BigAdd(a, b) == BigAddFrom(a, b, 1, 0)

\* a - b for a >= b
RECURSIVE BigSubFrom(_, _, _, _)
BigSubFrom(a, b, i, borrow) ==
    IF i > Len(a) THEN << >>
    ELSE LET x == a[i] - DigitAt(b, i) - borrow
         IN  IF x < 0
             THEN << x + digitBase >> \o BigSubFrom(a, b, i + 1, 1)
             ELSE << x >> \o BigSubFrom(a, b, i + 1, 0)

BigSub(a, b) == Trim(BigSubFrom(a, b, 1, 0))

\* -1, 0 or 1 as a is below, equal to or above b
RECURSIVE BigCmpFrom(_, _, _)
BigCmpFrom(a, b, i) ==
    IF i = 0 THEN 0
    ELSE IF a[i] < b[i] THEN 0 - 1
    ELSE IF a[i] > b[i] THEN 1
    ELSE BigCmpFrom(a, b, i - 1)

BigCmp(a, b) ==
    IF Len(a) < Len(b) THEN 0 - 1
    ELSE IF Len(a) > Len(b) THEN 1
    ELSE BigCmpFrom(a, b, Len(a))

\* a * k for a digit k
RECURSIVE BigTimesFrom(_, _, _, _)
BigTimesFrom(a, k, i, carry) ==
    IF i > Len(a)
    THEN IF carry = 0 THEN << >> ELSE << carry >>
    ELSE LET x == a[i] * k + carry
         IN  << x % digitBase >> \o BigTimesFrom(a, k, i + 1, x \div digitBase)

BigTimes(a, k) == IF k = 0 THEN << >> ELSE BigTimesFrom(a, k, 1, 0)

\* a * digitBase^n
ShiftDigits(a, n) ==
    IF a = << >> THEN a ELSE [ i \in 1 .. n |-> 0 ] \o a

RECURSIVE BigMulFrom(_, _, _)
BigMulFrom(a, b, j) ==
    IF j > Len(b) THEN << >>
    ELSE BigAdd(BigMulFrom(a, b, j + 1), ShiftDigits(BigTimes(a, b[j]), j - 1))

BigMul(a, b) == BigMulFrom(a, b, 1)

\* a * 2^s
BigShl(a, s) == ShiftDigits(BigTimes(a, TwoTo(s % 15)), s \div 15)

\* a \div 2^s
BigShr(a, s) ==
    LET n == s \div 15
        r == s % 15
        d == IF n >= Len(a) THEN << >> ELSE SubSeq(a, n + 1, Len(a))
    IN  Trim([ i \in DOMAIN d |->
                 (d[i] \div TwoTo(r))
                    + (DigitAt(d, i + 1) % TwoTo(r)) * TwoTo(15 - r) ])

\* a % 2^s
BigLow(a, s) ==
    LET n == s \div 15
        r == s % 15
    IN  Trim([ i \in 1 .. Min2(Len(a), n + 1) |->
                 IF i <= n THEN a[i] ELSE a[i] % TwoTo(r) ])

\* number of binary digits of a digit
DigitBits(d) == Cardinality({ k \in 0 .. 14 : TwoTo(k) <= d })

\* number of binary digits of a
BitLen(a) == IF a = << >> THEN 0 ELSE (Len(a) - 1) * 15 + DigitBits(a[Len(a)])

FromNat(n) == Trim(<< n % digitBase, (n \div digitBase) % digitBase,
                      n \div (digitBase * digitBase) >>)

\* the quotient digit of r by d, for r < d * digitBase and d with a top
\* digit of at least 2^14: the estimate from the top digits is at most two
\* above
RECURSIVE FixDigit(_, _, _)
FixDigit(q, r, d) ==
    IF BigCmp(BigTimes(d, q), r) > 0 THEN FixDigit(q - 1, r, d) ELSE q

QuotientDigit(r, d) ==
    IF BigCmp(r, d) < 0 THEN 0
    ELSE LET n == Len(d)
             top == DigitAt(r, n) + DigitAt(r, n + 1) * digitBase
         IN  FixDigit(Min2(digitBase - 1, top \div d[n]), r, d)

\* one step of the long division: the quotient so far with the digit q
\* below it, and what is left of r
DivideStep(quotient, r, d, q) ==
    << Trim(<< q >> \o quotient), BigSub(r, BigTimes(d, q)) >>

DivideDigit(quotient, r, d) == DivideStep(quotient, r, d, QuotientDigit(r, d))

\* upper is << quotient, remainder >> of the digits above digit; with
\* nothing left of them a digit 0 gives a digit 0 of the quotient
DivideBelow(upper, digit, d) ==
    IF upper[2] = << >> /\ digit = 0
    THEN << ShiftDigits(upper[1], 1), << >> >>
    ELSE DivideDigit(upper[1], Trim(<< digit >> \o upper[2]), d)

\* << quotient, remainder >> of the digits n[i .. Len(n)] of n, the highest
\* first: fewer digits than d has are a remainder
RECURSIVE LongDivide(_, _, _)
LongDivide(n, d, i) ==
    IF i + Len(d) > Len(n) + 1 THEN << << >>, SubSeq(n, i, Len(n)) >>
    ELSE DivideBelow(LongDivide(n, d, i + 1), n[i], d)

\* << a \div b, whether a % b is not 0 >> for b > 0
Inexact(qr) == << qr[1], qr[2] # << >> >>

DivideShifted(a, b, s) == Inexact(LongDivide(BigShl(a, s), BigShl(b, s), 1))

BigDivide(a, b) == DivideShifted(a, b, 15 - DigitBits(b[Len(b)]))

(***************************************************************************)
(* IEEE 754 double precision numbers.  A number is << e, hi, lo >>: its    *)
(* value is (hi * 2^26 + lo) * 2^e for hi >= 0 and -(-hi * 2^26 + lo) *    *)
(* 2^e for hi < 0, with 2^26 <= |hi| < 2^27 and 0 <= lo < 2^26 (a 53 bit   *)
(* significand).  Zero is << 0, 0, 0 >>.                                    *)
(***************************************************************************)
\* the exponent field of the infinities and of NaN: above every exponent a
\* finite double has
specialExponent == 2 ^ 12

Zero == << 0, 0, 0 >>
Infinity == << specialExponent, 1, 0 >>
MinusInfinity == << specialExponent, 0 - 1, 0 >>
NotANumber == << specialExponent, 0, 0 >>

IsNaN(x) == x = NotANumber
IsInfinite(x) == x = Infinity \/ x = MinusInfinity
IsFinite(x) == x[1] # specialExponent
IsNegative(x) == x[2] < 0

AbsInt(n) == IF n < 0 THEN 0 - n ELSE n

\* the significand as an unsigned integer
Significand(x) ==
    LET hi == AbsInt(x[2])
        lo == x[3]
    IN  Trim(<< lo % digitBase,
                (lo \div digitBase) + (hi % 16) * 2048,
                (hi \div 16) % digitBase,
                hi \div 524288 >>)

\* the number of sign neg, 53 bit significand m and exponent e
Pack(neg, m, e) ==
    LET hi == DigitAt(m, 4) * 524288 + DigitAt(m, 3) * 16 + DigitAt(m, 2) \div 2048
        lo == (DigitAt(m, 2) % 2048) * digitBase + DigitAt(m, 1)
    IN  << e, IF neg THEN 0 - hi ELSE hi, lo >>

\* the double nearest to m * 2^e, or to a value just above it when sticky
\* (ties to even)
\* r of 53 binary digits, or of 54 after a carry out of the rounding
PackRounded(neg, r, e, carried) ==
    Pack(neg, IF carried THEN BigShr(r, 1) ELSE r, IF carried THEN e + 1 ELSE e)

\* q is m without its s lowest digits, c compares those with a half
RoundUp(q, c, sticky) ==
    IF c > 0 \/ (c = 0 /\ (sticky \/ q[1] % 2 = 1)) THEN BigAdd(q, << 1 >>) ELSE q

RoundCut(neg, r, e) == PackRounded(neg, r, e, BitLen(r) > 53)

RoundLen(neg, m, e, sticky, len) ==
    IF len = 0 THEN Zero
    ELSE IF len <= 53 THEN Pack(neg, BigShl(m, 53 - len), e - (53 - len))
    ELSE RoundCut(neg,
                  RoundUp(BigShr(m, len - 53),
                          BigCmp(BigLow(m, len - 53), BigShl(<< 1 >>, len - 54)),
                          sticky),
                  e + (len - 53))

RoundTo(neg, m, e, sticky) == RoundLen(neg, m, e, sticky, BitLen(m))

\* a whole number of at most 53 binary digits is a double as it is
PackWhole(neg, m, len) == Pack(neg, BigShl(m, 53 - len), len - 53)

FromNatural(neg, m) == IF m = << >> THEN Zero ELSE PackWhole(neg, m, BitLen(m))

FromInt(n) == FromNatural(n < 0, FromNat(AbsInt(n)))

Neg(x) ==
    IF IsNaN(x) THEN x ELSE << x[1], 0 - x[2], x[3] >>

AbsF(x) == IF IsNegative(x) THEN Neg(x) ELSE x

\* -1, 0, 1 as |x| is below, equal to, above |y|, for finite x and y
CmpMagnitude(x, y) ==
    IF x = Zero THEN (IF y = Zero THEN 0 ELSE 0 - 1)
    ELSE IF y = Zero THEN 1
    ELSE IF x[1] # y[1] THEN (IF x[1] < y[1] THEN 0 - 1 ELSE 1)
    ELSE IF AbsInt(x[2]) # AbsInt(y[2])
         THEN (IF AbsInt(x[2]) < AbsInt(y[2]) THEN 0 - 1 ELSE 1)
    ELSE IF x[3] # y[3] THEN (IF x[3] < y[3] THEN 0 - 1 ELSE 1)
    ELSE 0

\* x < y
Less(x, y) ==
    IF IsNaN(x) \/ IsNaN(y) THEN FALSE
    ELSE IF x = y THEN FALSE
    ELSE IF x = Infinity \/ y = MinusInfinity THEN FALSE
    ELSE IF x = MinusInfinity \/ y = Infinity THEN TRUE
    ELSE IF IsNegative(x) /\ ~ IsNegative(y) THEN TRUE
    ELSE IF ~ IsNegative(x) /\ IsNegative(y) THEN FALSE
    ELSE IF IsNegative(x) THEN CmpMagnitude(x, y) > 0
    ELSE CmpMagnitude(x, y) < 0

Greater(x, y) == Less(y, x)

AtLeast(x, y) ==
    IF IsNaN(x) \/ IsNaN(y) THEN FALSE ELSE ~ Less(x, y)

AtMost(x, y) == AtLeast(y, x)

\* the larger exponent is brought down to the smaller one; a difference
\* beyond 120 binary digits rounds as one of 120
\* the sum of the significands mb and ms of signs nb and ns at exponent
\* e; c compares mb with ms
AddSigned(nb, ns, mb, ms, e, c) ==
    IF nb # ns /\ c = 0 THEN Zero
    ELSE RoundTo(IF nb = ns \/ c > 0 THEN nb ELSE ns,
                 IF nb = ns THEN BigAdd(mb, ms)
                 ELSE BigSub(IF c > 0 THEN mb ELSE ms, IF c > 0 THEN ms ELSE mb),
                 e, FALSE)

AddAligned(nb, ns, mb, ms, e) == AddSigned(nb, ns, mb, ms, e, BigCmp(mb, ms))

\* big has the larger exponent, d above that of small
AddShifted(big, small, d) ==
    AddAligned(IsNegative(big), IsNegative(small),
               BigShl(Significand(big), d), Significand(small), big[1] - d)

AddOrdered(big, small) == AddShifted(big, small, Min2(big[1] - small[1], 120))

AddFinite(x, y) ==
    IF x = Zero THEN y
    ELSE IF y = Zero THEN x
    ELSE AddOrdered(IF x[1] >= y[1] THEN x ELSE y, IF x[1] >= y[1] THEN y ELSE x)

Add(x, y) ==
    IF IsNaN(x) \/ IsNaN(y) THEN NotANumber
    ELSE IF IsInfinite(x)
         THEN IF IsInfinite(y) /\ x # y THEN NotANumber ELSE x
    ELSE IF IsInfinite(y) THEN y
    ELSE AddFinite(x, y)

Sub(x, y) == Add(x, Neg(y))

Mul(x, y) ==
    IF IsNaN(x) \/ IsNaN(y) THEN NotANumber
    ELSE IF IsInfinite(x) \/ IsInfinite(y)
         THEN IF x = Zero \/ y = Zero THEN NotANumber
              ELSE IF IsNegative(x) = IsNegative(y) THEN Infinity
              ELSE MinusInfinity
    ELSE IF x = Zero \/ y = Zero THEN Zero
    ELSE RoundTo(IsNegative(x) # IsNegative(y),
                 BigMul(Significand(x), Significand(y)), x[1] + y[1], FALSE)

\* qr is << quotient, whether there is a remainder >>
RoundQuotient(neg, qr, e) == RoundTo(neg, qr[1], e, qr[2])

Div(x, y) ==
    IF IsNaN(x) \/ IsNaN(y) THEN NotANumber
    ELSE IF IsInfinite(x)
         THEN IF IsInfinite(y) THEN NotANumber
              ELSE IF IsNegative(x) = IsNegative(y) THEN Infinity
              ELSE MinusInfinity
    ELSE IF IsInfinite(y) THEN Zero
    ELSE IF y = Zero
         THEN IF x = Zero THEN NotANumber
              ELSE IF IsNegative(x) THEN MinusInfinity ELSE Infinity
    ELSE IF x = Zero THEN Zero
    ELSE RoundQuotient(IsNegative(x) # IsNegative(y),
                       BigDivide(ShiftDigits(Significand(x), 4), Significand(y)),
                       x[1] - y[1] - 60)

\* the number a decimal literal of n and d decimals denotes: n / 10^d
Dec(n, d) == Div(FromInt(n), FromInt(10 ^ d))

\* the integer nearest to x * 10^d, halves away from zero, for finite x:
\* what toFixed(d) prints, without the point
NatOf(n) ==
    DigitAt(n, 1) + DigitAt(n, 2) * digitBase + DigitAt(n, 3) * digitBase * digitBase

\* m * 2^e to the nearest integer, halves up
Nearest(m, e) ==
    IF e >= 0 THEN BigShl(m, e)
    ELSE IF BigCmp(BigLow(m, 0 - e), BigShl(<< 1 >>, 0 - e - 1)) >= 0
    THEN BigAdd(BigShr(m, 0 - e), << 1 >>)
    ELSE BigShr(m, 0 - e)

Signed(neg, v) == IF neg THEN 0 - v ELSE v

Fixed(x, d) ==
    IF x = Zero THEN 0
    ELSE Signed(IsNegative(x),
                NatOf(Nearest(BigTimes(BigTimes(Significand(x), 10 ^ (d \div 2)),
                                       10 ^ (d - d \div 2)),
                              x[1])))
\* Math.min and Math.max: NaN when an argument is NaN
MinF(x, y) ==
    IF IsNaN(x) \/ IsNaN(y) THEN NotANumber
    ELSE IF Less(y, x) THEN y ELSE x

MaxF(x, y) ==
    IF IsNaN(x) \/ IsNaN(y) THEN NotANumber
    ELSE IF Less(x, y) THEN y ELSE x

\* a number in a condition: 0 and NaN count as false
Truthy(x) == ~ IsNaN(x) /\ x # Zero

\* Number.prototype.toFixed(d): << sign, digits >>, the digits as an
\* integer without the point (<< "-", 1234 >> is "-12.34" for d = 2); the
\* sign is "-" for every x < 0, one that rounds to zero included
ToFixed(x, d) ==
    IF IsNaN(x) THEN << "NaN", 0 >>
    ELSE IF x = Infinity THEN << "Infinity", 0 >>
    ELSE IF x = MinusInfinity THEN << "-Infinity", 0 >>
    ELSE << IF IsNegative(x) THEN "-" ELSE "", AbsInt(Fixed(x, d)) >>

\* number literals of the source
One == FromInt(1)

Hundred == FromInt(100)

(***************************************************************************)
(* Program constants that are not integers.                                *)
(***************************************************************************)
\* minProfitThreshold = 0.25
minProfitThreshold == Dec(25, 2)

\* "Within 0.1% is considered the same"
sameProfitTolerance == Dec(1, 1)

\* amount: 1.0, the amount of every route step
defaultAmount == FromInt(1)

\* 0.3% for DEX, 0.1% for CEX
dexFee == Dec(3, 3)

cexFee == Dec(1, 3)

feeRate(type) == IF type = "DEX" THEN dexFee ELSE cexFee

(***************************************************************************)
(* Profit arithmetic of detectArbitrageOpportunities.                      *)
(*   profitAmount = sellPrice - buyPrice                                   *)
(*   totalFees = (buyPrice * buyFee) + (sellPrice * sellFee)               *)
(*   netProfitAmount = profitAmount - totalFees                            *)
(*   netProfitPercentage = (netProfitAmount / buyPrice) * 100              *)
(***************************************************************************)
totalFees(buyPrice, sellPrice, buyType, sellType) ==
    Add(Mul(buyPrice, feeRate(buyType)), Mul(sellPrice, feeRate(sellType)))

netProfitAmount(buyPrice, sellPrice, buyType, sellType) ==
    Sub(Sub(sellPrice, buyPrice), totalFees(buyPrice, sellPrice, buyType, sellType))

\* (netProfitAmount / buyPrice) * 100
PercentageOf(amount, buyPrice) == Mul(Div(amount, buyPrice), Hundred)

(***************************************************************************)
(* The simulated exchange adapters of initializeExchanges: getPrices.      *)
(* Every call draws one Math.random() per asset.                           *)
(***************************************************************************)
\* baselinePrices: centre + (Math.random() * span - offset)
baselineCentre ==
    [ BTC |-> Dec(6584250, 2), ETH |-> Dec(324589, 2), SOL |-> Dec(10347, 2),
      MATIC |-> Dec(87, 2), AVAX |-> Dec(3425, 2), BNB |-> Dec(60312, 2),
      ARB |-> Dec(123, 2) ]

baselineSpan ==
    [ BTC |-> FromInt(200), ETH |-> FromInt(15), SOL |-> FromInt(2),
      MATIC |-> Dec(2, 2), AVAX |-> Dec(5, 1), BNB |-> FromInt(5),
      ARB |-> Dec(3, 2) ]

baselineOffset ==
    [ BTC |-> FromInt(100), ETH |-> Dec(75, 1), SOL |-> FromInt(1),
      MATIC |-> Dec(1, 2), AVAX |-> Dec(25, 2), BNB |-> Dec(25, 1),
      ARB |-> Dec(15, 3) ]

baselinePrices(asset, random) ==
    Add(baselineCentre[asset],
        Sub(Mul(random, baselineSpan[asset]), baselineOffset[asset]))

\* the exchangeBias table
exchangeBias ==
    [ Uniswap |-> Dec(1, 3), SushiSwap |-> Neg(Dec(5, 4)), OKX |-> Dec(8, 4),
      Binance |-> Neg(Dec(2, 4)), Coinbase |-> Dec(15, 4),
      Jupiter |-> Neg(Dec(8, 4)), Raydium |-> Dec(5, 4) ]

\* table[key] || otherwise, for a table without an entry that counts as
\* false
OrElse(table, key, otherwise) ==
    IF key \in DOMAIN table THEN table[key] ELSE otherwise

\* exchangeBias[exchangeInfo.name] || 0
BiasOf(name) == OrElse(exchangeBias, name, Zero)

\* prices[asset] = baselinePrices[asset] * (1 + bias) for the assets with a
\* baseline price that counts as true
BiasedPrices(baseline, factor) ==
    [ a \in { b \in DOMAIN baseline : Truthy(baseline[b]) } |->
        Mul(baseline[a], factor) ]

\* what getPrices of the exchange resolves with when Math.random() returns
\* randoms[asset] for the asset
getPrices(name, randoms) ==
    BiasedPrices([ a \in AssetNames |-> baselinePrices(a, randoms[a]) ],
                 Add(One, BiasOf(name)))

(***************************************************************************)
(* State.                                                                  *)
(***************************************************************************)
VARIABLES
    \* ArbitrageService: exchange -> asset -> price (a partial map per exchange)
    priceCache,
    \* ArbitrageService: the in-memory routes, in array order
    arbitrageRoutes,
    \* ArbitrageService: the history array; each element refers to the
    \* summary object of one executeTrade call (exec[p].summary)
    executionHistory,
    \* ArbitrageService.isMonitoring
    isMonitoring,
    \* ArbitrageService.monitoringInterval, with the timers of the event
    \* loop: handle is TRUE while the field refers to a timer (it is null
    \* otherwise), timers counts the installed timers that were not cleared
    monitoringInterval,
    \* ArbitrageService.activeExecutions
    activeExecutions,
    \* MemStorage.arbitrageOpps: id -> opportunity
    arbitrageOpps,
    \* MemStorage.currentId
    currentId,
    \* the executeTrade calls: where each stands and its local variables
    exec,
    \* the calls of calculateRiskScore and calculateConfidence made so far:
    \* what each was given, what it returned and when
    scorerCalls,
    \* the other async calls in flight (timer callbacks, getOpportunities,
    \* detectNewOpportunities, syncRoutesToStorage passes)
    tasks,
    \* Date.now(), in minutes
    now,
    \* what the calls of getPerformanceMetrics have returned: << >> before
    \* the first call, then << the result of the latest call >>
    metrics

vars == << priceCache, arbitrageRoutes, executionHistory, isMonitoring,
           monitoringInterval, activeExecutions, arbitrageOpps, currentId, exec,
           scorerCalls, tasks, now, metrics >>

\* what executeTrade leaves alone, besides the fields named in each action
monitorVars == << priceCache, arbitrageRoutes, isMonitoring, monitoringInterval,
                  currentId, scorerCalls, tasks, now, metrics >>

\* parseInt of a string that does not start with a digit, where the result
\* is used as an identifier: a value that is no key of the store
NaN == 0 - 1

(***************************************************************************)
(* MemStorage (unnamed/part_002).  A call takes effect when it is made;    *)
(* its result reaches the caller at the caller's next segment.             *)
(***************************************************************************)
\* arbitrageOpps.get(id): << >> for undefined, << opportunity >> otherwise
getArbitrageOpportunity(id) ==
    IF id \in DOMAIN arbitrageOpps THEN << arbitrageOpps[id] >> ELSE << >>

\* { ...existingOpportunity, ...opportunity }: the patch's fields win
MergeOpportunity(existing, patch) ==
    [ f \in DOMAIN existing |->
        IF f \in DOMAIN patch THEN patch[f] ELSE existing[f] ]

\* the map after updateArbitrageOpportunity(id, patch)
updateArbitrageOpportunity(opps, id, patch) ==
    IF id \in DOMAIN opps
    THEN [ opps EXCEPT ![id] = MergeOpportunity(opps[id], patch) ]
    ELSE opps

\* the map after createArbitrageOpportunity(data) took identifier id
createArbitrageOpportunity(opps, id, data) ==
    [ k \in DOMAIN opps \cup {id} |->
        IF k = id
        THEN [ id |-> id,
               asset |-> data.asset,
               buyExchange |-> data.buyExchange,
               sellExchange |-> data.sellExchange,
               buyPrice |-> data.buyPrice,
               sellPrice |-> data.sellPrice,
               profitPercentage |-> data.profitPercentage,
               profitAmount |-> data.profitAmount,
               isActive |-> data.isActive ]
        ELSE opps[k] ]

(***************************************************************************)
(* The three demonstration opportunities of fetchAndCreateOpportunities.   *)
(***************************************************************************)
opportunitiesData ==
    << [ asset |-> "ETH", buyExchange |-> "Uniswap", sellExchange |-> "OKX",
         buyPrice |-> Dec(324589, 2), sellPrice |-> Dec(326275, 2),
         profitPercentage |-> Dec(52, 2), profitAmount |-> Dec(1686, 2),
         isActive |-> TRUE ],
       [ asset |-> "SOL", buyExchange |-> "Jupiter", sellExchange |-> "Raydium",
         buyPrice |-> Dec(10347, 2), sellPrice |-> Dec(10433, 2),
         profitPercentage |-> Dec(83, 2), profitAmount |-> Dec(86, 2),
         isActive |-> TRUE ],
       [ asset |-> "BTC", buyExchange |-> "OKX", sellExchange |-> "Binance",
         buyPrice |-> Dec(6582050, 2), sellPrice |-> Dec(6612375, 2),
         profitPercentage |-> Dec(46, 2), profitAmount |-> Dec(30325, 2),
         isActive |-> TRUE ] >>

(***************************************************************************)
(* executeTrade (server/services/arbitrage.ts, 394-584).                   *)
(*                                                                         *)
(* exec[p] is call number p, numbered in order of arrival:                 *)
(*   pc       "idle" | "lookup" | "leg" | "deactivate" | "okx" | "done"    *)
(*   oppId    the opportunityId argument                                   *)
(*   found    what storage.getArbitrageOpportunity returned (<< >> or      *)
(*            << opportunity >>)                                           *)
(*   route    the route being executed (<< >> before validation)           *)
(*   step     index in route.steps of the leg being awaited                *)
(*   legs     the exchange.executeTrade calls made so far                  *)
(*   elapsed  Date.now() less the summary's startTime, in milliseconds     *)
(*   summary  the executionSummary object (<< >> before it is created)     *)
(*   result   "" while running, then "Success" or the error thrown         *)
(***************************************************************************)
IdleCall ==
    [ pc |-> "idle", oppId |-> 0, found |-> << >>, route |-> << >>,
      step |-> 0, legs |-> << >>, elapsed |-> 0, summary |-> << >>,
      result |-> "" ]

\* the in-memory route of an opportunity (Array.find: the first match)
RouteMatches(r, opportunity) ==
    /\ r.asset = opportunity.asset
    /\ \E i \in DOMAIN r.steps :
         r.steps[i].exchange = opportunity.buyExchange /\ r.steps[i].action = "buy"
    /\ \E i \in DOMAIN r.steps :
         r.steps[i].exchange = opportunity.sellExchange /\ r.steps[i].action = "sell"

\* confidence: 0.85
manualConfidence == Dec(85, 2)

\* "If route not found in memory, create one from storage data"
ManualRoute(opportunityId, opportunity) ==
    [ id |-> << "manual", opportunityId >>,
      asset |-> opportunity.asset,
      steps |-> << [ exchange |-> opportunity.buyExchange,
                     type |-> getExchangeType(opportunity.buyExchange),
                     action |-> "buy",
                     expectedPrice |-> opportunity.buyPrice,
                     amount |-> defaultAmount ],
                   [ exchange |-> opportunity.sellExchange,
                     type |-> getExchangeType(opportunity.sellExchange),
                     action |-> "sell",
                     expectedPrice |-> opportunity.sellPrice,
                     amount |-> defaultAmount ] >>,
      estimatedProfitAmount |-> opportunity.profitAmount,
      estimatedProfitPercentage |-> opportunity.profitPercentage,
      riskScore |-> 50,
      confidence |-> manualConfidence ]

FindRoute(opportunityId, opportunity) ==
    IF \E i \in DOMAIN arbitrageRoutes : RouteMatches(arbitrageRoutes[i], opportunity)
    THEN arbitrageRoutes[
           CHOOSE i \in DOMAIN arbitrageRoutes :
             /\ RouteMatches(arbitrageRoutes[i], opportunity)
             /\ \A j \in DOMAIN arbitrageRoutes :
                  RouteMatches(arbitrageRoutes[j], opportunity) => i <= j ]
    ELSE ManualRoute(opportunityId, opportunity)

\* the executionSummary object as created (success: false, steps: [],
\* executionTimeMs: 0)
NewSummary(route, opportunity) ==
    [ routeId |-> route.id, success |-> FALSE, asset |-> opportunity.asset,
      steps |-> << >>, expectedProfit |-> opportunity.profitAmount,
      executionTimeMs |-> 0 ]

\* a slot check that lets one request too many through
SlotCheckOffByOne == activeExecutions <= maxConcurrentExecutions

\* the slot check at the head of executeTrade
SlotAvailable == activeExecutions < maxConcurrentExecutions

\* a request without a slot that goes on to the lookup
PassUnthrottled(call, id) ==
    [ call EXCEPT !.pc = "lookup", !.oppId = id,
                  !.found = getArbitrageOpportunity(id) ]

\* "Maximum concurrent executions reached": thrown in the first segment,
\* rethrown by the outer catch
Throttle(call, id) ==
    [ call EXCEPT !.pc = "done", !.oppId = id, !.result = "Throttled" ]

\* the identifiers the callers of SpecExec pass: the identifier after the
\* first opportunity's, and the one before it, the demo user's, which is
\* never an opportunity's
RequestIds == { firstOpportunityId - 1, firstOpportunityId + 1 }

\* a counter that is left as it is where the slot is to be given back
KeepSlot(n) == n

\* this.activeExecutions--: before the throw of NotFound and of Stale, and
\* in the finally block
ReleaseSlot(n) == n - 1

(***************************************************************************)
(* Turns of the event loop.  A call that stands at an await on a promise   *)
(* that is settled already (a MemStorage call, getPrices, an async method  *)
(* of the service without a timer) has its continuation in the microtask   *)
(* queue; a timer callback (the monitoring interval, the wait of an        *)
(* adapter's executeTrade or of OkxService.executeArbitrage) starts a turn *)
(* and so runs when the queue is empty.  In a turn that a timer of the     *)
(* service started no caller's code runs before a promise of the caller    *)
(* settles, so no public method is called in it.                           *)
(***************************************************************************)
MicrotasksQueued ==
    \/ \E t \in DOMAIN tasks : tasks[t].kind # "none"
    \/ \E p \in Attempts : exec[p].pc \in { "lookup", "deactivate" }

\* the turn in progress was started by a timer of the service
TimerTurn ==
    \/ \E t \in DOMAIN tasks : tasks[t].origin = "timer"
    \/ \E p \in Attempts : exec[p].pc = "deactivate"

\* Segment 1: the slot check, the increment, the call of
\* storage.getArbitrageOpportunity.
ExecStart(p, id) ==
    /\ exec[p].pc = "idle"
    /\ ~ TimerTurn
    /\ \A q \in Attempts : q < p => exec[q].pc # "idle"
    /\ IF ~ SlotAvailable
       THEN /\ exec' = [ exec EXCEPT ![p] = Throttle(@, id) ]
            /\ UNCHANGED activeExecutions
       ELSE /\ activeExecutions' = activeExecutions + 1
            /\ exec' = [ exec EXCEPT ![p] =
                  [ @ EXCEPT !.pc = "lookup", !.oppId = id,
                             !.found = getArbitrageOpportunity(id) ] ]
    /\ UNCHANGED << monitorVars, executionHistory, arbitrageOpps >>

\* the call exchange.executeTrade(asset, step.amount, step.action) of step i
LegCall(route, i) ==
    [ exchange |-> route.steps[i].exchange,
      action |-> route.steps[i].action,
      amount |-> route.steps[i].amount ]

\* Segment 2: the result of the lookup; validation; the route; the summary;
\* the first leg is sent.  (Every exchange a stored opportunity names is
\* registered, so "Exchange not found" is never thrown.)
ExecLookupDone(p) ==
    /\ exec[p].pc = "lookup"
    /\ LET c == exec[p] IN
       IF c.found = << >>
       THEN /\ activeExecutions' = ReleaseSlot(activeExecutions)
            /\ exec' = [ exec EXCEPT ![p] =
                  [ @ EXCEPT !.pc = "done", !.result = "NotFound" ] ]
       ELSE IF ~ c.found[1].isActive
       THEN /\ activeExecutions' = ReleaseSlot(activeExecutions)
            /\ exec' = [ exec EXCEPT ![p] =
                  [ @ EXCEPT !.pc = "done", !.result = "Stale" ] ]
       ELSE LET route == FindRoute(c.oppId, c.found[1]) IN
            /\ exec' = [ exec EXCEPT ![p] =
                  [ @ EXCEPT !.pc = "leg", !.route = route, !.step = 1,
                             !.summary = NewSummary(route, c.found[1]),
                             !.legs = << LegCall(route, 1) >> ] ]
            /\ UNCHANGED activeExecutions
    /\ UNCHANGED << monitorVars, executionHistory, arbitrageOpps >>

\* an adapter that fills half of the amount it is asked for
tradeAmountHalved(amount, success) ==
    IF success THEN Mul(amount, Dec(5, 1)) ELSE Zero

\* TradeResult.amount of the adapters of initializeExchanges: the amount
\* asked for when the trade succeeds, 0 when it fails
tradeAmount(amount, success) == IF success THEN amount ELSE Zero

\* executionSummary.steps.push(...) with the trade result of the call
RecordStep(summary, route, i, call, ok) ==
    [ summary EXCEPT !.steps = Append(@,
        [ exchange |-> route.steps[i].exchange,
          action |-> route.steps[i].action,
          expectedPrice |-> route.steps[i].expectedPrice,
          amount |-> tradeAmount(call.amount, ok),
          success |-> ok,
          error |-> IF ok THEN ""
                    ELSE "Simulated trade execution failure due to market conditions" ]) ]

\* a success path that returns without recording the execution
RecordNothing(history, p) == history

\* "Record execution in history", after the last leg:
\* this.executionHistory.push(executionSummary)
RecordExecution(history, p) == Append(history, p)

\* a catch block that records nothing
CatchWithoutRecord(history, p) == history

\* the catch block: the summary is marked failed and pushed to the history
CatchHistory(history, p) == Append(history, p)

\* endTime = new Date(); executionTimeMs = endTime - startTime
Stamped(summary, success, elapsed) ==
    [ summary EXCEPT !.success = success, !.executionTimeMs = elapsed ]

\* Segment 3: a leg's trade result, success: ok, arrives waitMs after the
\* call.  A failed leg aborts; a successful one sends the next leg; after
\* the last leg the summary is pushed and
\* storage.updateArbitrageOpportunity(id, { isActive: false }) is called.
ExecLegDone(p, ok, waitMs) ==
    /\ exec[p].pc = "leg"
    /\ ~ MicrotasksQueued
    /\ LET c == exec[p]
           s == RecordStep(c.summary, c.route, c.step, c.legs[c.step], ok)
       IN
       IF ~ ok
       THEN /\ exec' = [ exec EXCEPT ![p] =
                  [ @ EXCEPT !.pc = "done", !.result = "LegFailure",
                             !.elapsed = @ + waitMs,
                             !.summary = Stamped(s, FALSE, c.elapsed + waitMs) ] ]
            /\ executionHistory' = CatchHistory(executionHistory, p)
            /\ activeExecutions' = ReleaseSlot(activeExecutions)
            /\ UNCHANGED arbitrageOpps
       ELSE IF c.step < Len(c.route.steps)
       THEN /\ exec' = [ exec EXCEPT ![p] =
                  [ @ EXCEPT !.summary = s, !.step = c.step + 1,
                             !.elapsed = @ + waitMs,
                             !.legs = Append(@, LegCall(c.route, c.step + 1)) ] ]
            /\ UNCHANGED << executionHistory, activeExecutions, arbitrageOpps >>
       ELSE /\ exec' = [ exec EXCEPT ![p] =
                  [ @ EXCEPT !.pc = "deactivate",
                             !.elapsed = @ + waitMs,
                             !.summary = Stamped(s, TRUE, c.elapsed + waitMs) ] ]
            /\ executionHistory' = RecordExecution(executionHistory, p)
            /\ arbitrageOpps' =
                  updateArbitrageOpportunity(arbitrageOpps, c.oppId,
                                             [ isActive |-> FALSE ])
            /\ UNCHANGED activeExecutions
    /\ UNCHANGED monitorVars

\* Segment 4: the store update has settled; okxService.executeArbitrage is
\* called.
ExecDeactivateDone(p) ==
    /\ exec[p].pc = "deactivate"
    /\ exec' = [ exec EXCEPT ![p].pc = "okx" ]
    /\ UNCHANGED << monitorVars, executionHistory, activeExecutions,
                    arbitrageOpps >>

\* simulateApiDelay(1500) of OkxService.executeArbitrage: the class declares
\* the method more than once and the last declaration is the one that runs
okxDelayMs == 1500

\* a return that takes the summary's end time after the OKX call
ReturnedRestamped(call) ==
    [ call EXCEPT !.pc = "done", !.result = "Success",
                  !.summary = Stamped(@, TRUE, call.elapsed + okxDelayMs) ]

\* "Return the execution result"
Returned(call) == [ call EXCEPT !.pc = "done", !.result = "Success" ]

\* Segment 5: okxService.executeArbitrage has settled; the method returns
\* and the finally block releases the slot.
ExecOkxDone(p) ==
    /\ exec[p].pc = "okx"
    /\ ~ MicrotasksQueued
    /\ exec' = [ exec EXCEPT ![p] = Returned(@) ]
    /\ activeExecutions' = ReleaseSlot(activeExecutions)
    /\ UNCHANGED << monitorVars, executionHistory, arbitrageOpps >>
(***************************************************************************)
(* detectArbitrageOpportunities (597-700), up to the call of               *)
(* syncRoutesToStorage.  No await: one segment.                            *)
(***************************************************************************)
\* The comparators of the three sorts return the difference of two numbers,
\* ascending (a - b) or descending (b - a).  Array.prototype.sort reads only
\* whether the comparator's result is negative: a result that is NaN counts
\* as 0.  The difference of two numbers is negative exactly when the first
\* is less than the second (a difference that is NaN is not negative, and
\* no number is less than NaN).
ComesBefore(x, y, descending) ==
    IF descending THEN Less(y, x) ELSE Less(x, y)

\* Array.prototype.sort as the engine runs it on an array of fewer than 64
\* items (no array of the service is longer): the run the array begins with
\* is taken as it is, or reversed when it descends, and every later item is
\* put into it by binary search.  Items that compare equal keep their order;
\* where a key is NaN the result is the one these steps give.  Sorted here
\* are pairs << key, item >>.
\* the length of the run s begins with, idx being the next place to look at:
\* the run goes on while each item comes before the one ahead of it
\* (a descending run) or does not (an ascending one)
RECURSIVE RunLength(_, _, _, _)
RunLength(s, idx, isDescending, descending) ==
    IF idx > Len(s) THEN idx - 1
    ELSE IF ComesBefore(s[idx][1], s[idx - 1][1], descending) = isDescending
         THEN RunLength(s, idx + 1, isDescending, descending)
         ELSE idx - 1

Reversed(s) == [ i \in DOMAIN s |-> s[Len(s) + 1 - i] ]

\* the first run of s, in order
FirstRun(s, descending) ==
    LET isDescending == ComesBefore(s[2][1], s[1][1], descending)
        run == SubSeq(s, 1, RunLength(s, 3, isDescending, descending))
    IN  IF isDescending THEN Reversed(run) ELSE run

\* the binary search for the place of pivot among the items of sorted;
\* left and right count the items ahead of the place, as the engine's
\* indices do
RECURSIVE BinaryPlace(_, _, _, _, _)
BinaryPlace(sorted, pivot, left, right, descending) ==
    IF left >= right THEN left
    ELSE LET mid == left + ((right - left) \div 2)
         IN  IF ComesBefore(pivot[1], sorted[mid + 1][1], descending)
             THEN BinaryPlace(sorted, pivot, left, mid, descending)
             ELSE BinaryPlace(sorted, pivot, mid + 1, right, descending)

InsertAt(sorted, x, place) ==
    SubSeq(sorted, 1, place - 1) \o << x >> \o SubSeq(sorted, place, Len(sorted))

InsertByKey(sorted, x, descending) ==
    InsertAt(sorted, x,
             BinaryPlace(sorted, x, 0, Len(sorted), descending) + 1)

\* sorted holds the first Len(sorted) items of s, in order: the items after
\* them are put in one by one
RECURSIVE SortRest(_, _, _)
SortRest(sorted, s, descending) ==
    IF Len(sorted) = Len(s) THEN sorted
    ELSE SortRest(InsertByKey(sorted, s[Len(sorted) + 1], descending),
                  s, descending)

SortByKey(s, descending) ==
    IF Len(s) < 2 THEN s
    ELSE SortRest(FirstRun(s, descending), s, descending)

Items(pairs) == [ i \in DOMAIN pairs |-> pairs[i][2] ]

\* "Get all prices for this asset across exchanges", in registry order
AssetPrices(cache, asset) ==
    LET Has(i) == asset \in DOMAIN cache[monitoredExchanges[i]]
        idx == SelectSeq([ i \in DOMAIN monitoredExchanges |-> i ], Has)
    IN  [ k \in DOMAIN idx |->
            [ exchange |-> monitoredExchanges[idx[k]],
              type |-> getExchangeType(monitoredExchanges[idx[k]]),
              price |-> cache[monitoredExchanges[idx[k]]][asset] ] ]

\* [...assetPrices].sort((a, b) => a.price - b.price)
BuyOptions(assetPrices) ==
    Items(SortByKey([ i \in DOMAIN assetPrices |->
                        << assetPrices[i].price, assetPrices[i] >> ], FALSE))

\* [...assetPrices].sort((a, b) => b.price - a.price)
SellOptions(assetPrices) ==
    Items(SortByKey([ i \in DOMAIN assetPrices |->
                        << assetPrices[i].price, assetPrices[i] >> ], TRUE))

\* Math.min(3, options.length): only the first three options of each side
\* are paired
optionsConsidered == 3

Min(a, b) == IF a < b THEN a ELSE b

Max(a, b) == IF a > b THEN a ELSE b

\* the exchangeRisk table; exchangeRisk[name] || 0
exchangeRisk(name) ==
    CASE name = "Uniswap" -> 0 - 5
      [] name = "Curve" -> 0 - 3
      [] name = "Jupiter" -> 3
      [] name = "OKX" -> 0 - 8
      [] name = "Binance" -> 0 - 10
      [] name = "Coinbase" -> 0 - 7
      [] name = "Kraken" -> 0 - 5
      [] OTHER -> 0

\* the numbers the scorers compare the percentage with
Five == FromInt(5)

Three == FromInt(3)

Two == FromInt(2)

Half == Dec(5, 1)

\* a risk score that follows the clock
RiskByClock(buyOption, sellOption, profitPercentage) == 50 + now

\* calculateRiskScore: 0 to 100, higher is riskier.  The score is a whole
\* number.
calculateRiskScore(buyOption, sellOption, profitPercentage) ==
    LET byProfit == IF Greater(profitPercentage, Five) THEN 20
                    ELSE IF Greater(profitPercentage, Two) THEN 10
                    ELSE IF Greater(profitPercentage, One) THEN 5
                    ELSE 0
        byKind == (IF buyOption.type = "DEX" THEN 5 ELSE 0)
                    + (IF sellOption.type = "DEX" THEN 5 ELSE 0)
        risk == 50 + byProfit + byKind
                   + exchangeRisk(buyOption.exchange)
                   + exchangeRisk(sellOption.exchange)
    IN  Max(0, Min(100, risk))

\* the branch of calculateConfidence that the percentage takes
ProfitCase(profitPercentage) ==
    IF Greater(profitPercentage, Five) THEN "above 5"
    ELSE IF Greater(profitPercentage, Three) THEN "above 3"
    ELSE IF Less(profitPercentage, Half) THEN "below 0.5"
    ELSE "other"

\* calculateConfidence for each branch and each kind of the two exchanges:
\* confidence = 0.7; -= 0.3, 0.15 or 0.1 by the percentage; += 0.1 for a CEX
\* on the buy side, += 0.1 for a CEX on the sell side; then the clamp
\* Math.max(0, Math.min(1, confidence))
ByProfit(confidence, case) ==
    CASE case = "above 5" -> Sub(confidence, Dec(3, 1))
      [] case = "above 3" -> Sub(confidence, Dec(15, 2))
      [] case = "below 0.5" -> Sub(confidence, Dec(1, 1))
      [] OTHER -> confidence

ByKind(confidence, type) ==
    IF type = "CEX" THEN Add(confidence, Dec(1, 1)) ELSE confidence

confidenceTable ==
    [ case \in { "above 5", "above 3", "below 0.5", "other" },
      buyType \in { "DEX", "CEX" }, sellType \in { "DEX", "CEX" } |->
        MaxF(Zero,
             MinF(One, ByKind(ByKind(ByProfit(Dec(7, 1), case), buyType),
                              sellType)) ) ]

\* calculateConfidence: 0 to 1
calculateConfidence(buyOption, sellOption, profitPercentage) ==
    confidenceTable[ProfitCase(profitPercentage), buyOption.type, sellOption.type]

\* a threshold check at 0.1 percent
LowerThreshold(percentage) == AtLeast(percentage, Dec(1, 1))

\* "Only consider if profit meets threshold"
MeetsThreshold(percentage) == AtLeast(percentage, minProfitThreshold)

\* the body of the inner loop for one pair with its profit: the pair, when
\* it meets the threshold
PairWithProfit(buyOption, sellOption, amount, percentage) ==
    IF MeetsThreshold(percentage)
    THEN << [ buyOption |-> buyOption, sellOption |-> sellOption,
              netProfitAmount |-> amount,
              netProfitPercentage |-> percentage ] >>
    ELSE << >>

PairWithAmount(buyOption, sellOption, amount) ==
    PairWithProfit(buyOption, sellOption, amount,
                   PercentageOf(amount, buyOption.price))

\* "Skip if same exchange"
PairAt(buyOption, sellOption) ==
    IF buyOption.exchange = sellOption.exchange THEN << >>
    ELSE PairWithAmount(buyOption, sellOption,
                        netProfitAmount(buyOption.price, sellOption.price,
                                        buyOption.type, sellOption.type))

\* the two nested loops over buyIdx and sellIdx (pair number k, in loop
\* order, is of buy option (k - 1) \div n + 1 and of sell option
\* (k - 1) % n + 1, with n options a side): what each pair adds to the
\* list of pairs
LoopBodies(buyOptions, sellOptions, n) ==
    [ k \in 1 .. n * n |->
        PairAt(buyOptions[((k - 1) \div n) + 1], sellOptions[((k - 1) % n) + 1]) ]

\* the list the loops leave, from pair number k on
RECURSIVE PairLoop(_, _)
PairLoop(bodies, k) ==
    IF k > Len(bodies) THEN << >> ELSE bodies[k] \o PairLoop(bodies, k + 1)

\* the pairs of one asset that meet the threshold, in loop order
ThresholdPairs(assetPrices) ==
    PairLoop(LoopBodies(BuyOptions(assetPrices), SellOptions(assetPrices),
                        Min(optionsConsidered, Len(assetPrices))), 1)
(***************************************************************************)
(* Prices the exchange adapters quote.  getPrices of every registered      *)
(* adapter resolves, with a price for each of the seven assets; the price  *)
(* depends on the value Math.random() returns for the asset.  The values   *)
(* explored are 0.5 for every asset of every exchange and, for SOL, also   *)
(* 0.35 on Jupiter and 0.75 on Raydium; where detection is to find more    *)
(* than one route, for SOL 0.35 on SushiSwap and Binance, and 0.5 or 0.35  *)
(* on Kraken.                                                              *)
(***************************************************************************)
\* Math.random() returns 0.5 for every asset
MidRandoms == [ a \in AssetNames |-> Half ]

\* the values of Math.random() explored for the calls of an exchange, the
\* first of them mid
Varied(mid, exchange) ==
    IF exchange = "Jupiter"
    THEN << mid, [ mid EXCEPT !["SOL"] = Dec(35, 2) ] >>
    ELSE IF exchange = "Raydium"
    THEN << mid, [ mid EXCEPT !["SOL"] = Dec(75, 2) ] >>
    ELSE << mid >>

Randoms(exchange) == Varied(MidRandoms, exchange)

\* the same where SushiSwap and Binance quote SOL low, and Kraken at mid
\* or low
WideRandoms(exchange) ==
    IF exchange \in { "SushiSwap", "Binance" }
    THEN << [ MidRandoms EXCEPT !["SOL"] = Dec(35, 2) ] >>
    ELSE IF exchange = "Kraken"
    THEN << MidRandoms, [ MidRandoms EXCEPT !["SOL"] = Dec(35, 2) ] >>
    ELSE Randoms(exchange)

NoPrices == << >>

\* what the getPrices calls of an exchange resolve with, for each of the
\* values explored
Quotes ==
    [ e \in ExchangeNames |->
        [ k \in DOMAIN Randoms(e) |-> getPrices(e, Randoms(e)[k]) ] ]

\* the exchanges with more than one value explored
VariedVenues(quotes) == { e \in DOMAIN quotes : Len(quotes[e]) > 1 }

\* the largest number of values explored for an exchange
MostQuotes(quotes) ==
    CHOOSE n \in { Len(quotes[e]) : e \in DOMAIN quotes } :
        \A e \in DOMAIN quotes : Len(quotes[e]) <= n

\* the results of one updatePrices fan-out: a result for every exchange
FanOuts(quotes) ==
    { [ e \in DOMAIN quotes |->
          IF e \in DOMAIN draw THEN quotes[e][draw[e]] ELSE quotes[e][1] ] :
      draw \in { d \in [ VariedVenues(quotes) -> 1 .. MostQuotes(quotes) ] :
                   \A e \in DOMAIN d : d[e] <= Len(quotes[e]) } }

Results == FanOuts(Quotes)

WideQuotes ==
    [ e \in ExchangeNames |->
        [ k \in DOMAIN WideRandoms(e) |-> getPrices(e, WideRandoms(e)[k]) ] ]

WideResults == FanOuts(WideQuotes)

(***************************************************************************)
(* The pairs of an asset that meet the threshold depend on the cached      *)
(* prices of the asset alone.  For the price columns that the caches of    *)
(* the explored behaviours hold they are computed once.                    *)
(***************************************************************************)
\* the exchanges whose getPrices is made to reject where the catch of
\* updatePrices is explored
MayReject == { "Jupiter", "Raydium" }

\* the caches in which every exchange has one of its quotes, and an
\* exchange that may reject one of its quotes or none
CachesOf(results) ==
    { [ e \in ExchangeNames |-> IF e \in none THEN NoPrices ELSE r[e] ] :
      r \in results, none \in SUBSET MayReject }

KnownCaches == CachesOf(Results) \cup WideResults

pairsTable ==
    [ assetPrices \in { AssetPrices(cache, asset) :
                          cache \in KnownCaches, asset \in AssetNames } |->
        ThresholdPairs(assetPrices) ]

ProfitablePairs(assetPrices) ==
    OrElse(pairsTable, assetPrices, ThresholdPairs(assetPrices))

\* the buy and sell prices, with the kinds of the exchanges, of the pairs
\* of pairsTable, of the pairs of exchanges with more than one value
\* explored, and of the pairs of opportunitiesData
SpreadsOf(table, quotes, rows) ==
    { << p.buyOption.price, p.sellOption.price,
         p.buyOption.type, p.sellOption.type >> :
        p \in UNION { { table[ap][i] : i \in DOMAIN table[ap] } :
                      ap \in DOMAIN table } }
    \cup UNION { { << quotes[e][k][a], quotes[f][m][a],
                      getExchangeType(e), getExchangeType(f) >> :
                     k \in DOMAIN quotes[e], m \in DOMAIN quotes[f] } :
                 e \in VariedVenues(quotes), f \in VariedVenues(quotes),
                 a \in AssetNames }
    \cup UNION { { << quotes[rows[i].buyExchange][k][rows[i].asset],
                      quotes[rows[i].sellExchange][m][rows[i].asset],
                      getExchangeType(rows[i].buyExchange),
                      getExchangeType(rows[i].sellExchange) >> :
                     k \in DOMAIN quotes[rows[i].buyExchange],
                     m \in DOMAIN quotes[rows[i].sellExchange] } :
                 i \in DOMAIN rows }

knownSpreads == SpreadsOf(pairsTable, WideQuotes, opportunitiesData)

profitTable ==
    [ s \in knownSpreads |->
        PercentageOf(netProfitAmount(s[1], s[2], s[3], s[4]), s[1]) ]

\* netProfitPercentage = (netProfitAmount / buyPrice) * 100
netProfitPercentage(buyPrice, sellPrice, buyType, sellType) ==
    OrElse(profitTable, << buyPrice, sellPrice, buyType, sellType >>,
           PercentageOf(netProfitAmount(buyPrice, sellPrice, buyType, sellType),
                        buyPrice))

(***************************************************************************)
(* detectArbitrageOpportunities, continued: the routes.                    *)
(***************************************************************************)
\* a route that names the buy exchange on both legs
RouteOnOneVenue(asset, pair, time) ==
    [ id |-> << "route", time >>,
      asset |-> asset,
      steps |-> << [ exchange |-> pair.buyOption.exchange,
                     type |-> pair.buyOption.type,
                     action |-> "buy",
                     expectedPrice |-> pair.buyOption.price,
                     amount |-> defaultAmount ],
                   [ exchange |-> pair.buyOption.exchange,
                     type |-> pair.buyOption.type,
                     action |-> "sell",
                     expectedPrice |-> pair.sellOption.price,
                     amount |-> defaultAmount ] >>,
      estimatedProfitAmount |-> pair.netProfitAmount,
      estimatedProfitPercentage |-> pair.netProfitPercentage,
      riskScore |-> 50,
      confidence |-> Dec(7, 1) ]

\* the route object built for a pair that meets the threshold
NewRoute(asset, pair, time) ==
    [ id |-> << "route", time >>,
      asset |-> asset,
      steps |-> << [ exchange |-> pair.buyOption.exchange,
                     type |-> pair.buyOption.type,
                     action |-> "buy",
                     expectedPrice |-> pair.buyOption.price,
                     amount |-> defaultAmount ],
                   [ exchange |-> pair.sellOption.exchange,
                     type |-> pair.sellOption.type,
                     action |-> "sell",
                     expectedPrice |-> pair.sellOption.price,
                     amount |-> defaultAmount ] >>,
      estimatedProfitAmount |-> pair.netProfitAmount,
      estimatedProfitPercentage |-> pair.netProfitPercentage,
      riskScore |->
          calculateRiskScore(pair.buyOption, pair.sellOption,
                             pair.netProfitPercentage),
      confidence |->
          calculateConfidence(pair.buyOption, pair.sellOption,
                              pair.netProfitPercentage) ]

\* "Add to routes if not already present"
RoutePresent(routes, route) ==
    \E i \in DOMAIN routes :
        /\ routes[i].asset = route.asset
        /\ routes[i].steps[1].exchange = route.steps[1].exchange
        /\ routes[i].steps[2].exchange = route.steps[2].exchange

\* the pairs of one asset that meet the threshold, from pair k on: a route
\* is pushed for each unless one of its asset and exchanges is present
RECURSIVE AddRoutes(_, _, _, _, _)
AddRoutes(routes, asset, pairs, k, time) ==
    IF k > Len(pairs) THEN routes
    ELSE LET route == NewRoute(asset, pairs[k], time)
         IN  AddRoutes(IF RoutePresent(routes, route) THEN routes
                       ELSE Append(routes, route),
                       asset, pairs, k + 1, time)

\* the pairs that meet the threshold, of each of monitoredAssets
PairsByAsset(cache) ==
    [ a \in DOMAIN monitoredAssets |->
        ProfitablePairs(AssetPrices(cache, monitoredAssets[a])) ]

\* the loop over monitoredAssets, from asset number a on
RECURSIVE AssetLoop(_, _, _, _)
AssetLoop(routes, pairs, a, time) ==
    IF a > Len(pairs) THEN routes
    ELSE AssetLoop(AddRoutes(routes, monitoredAssets[a], pairs[a], 1, time),
                   pairs, a + 1, time)

\* "Clear old routes that are no longer profitable"
StillProfitable(routes) ==
    LET Keep(r) == AtLeast(r.estimatedProfitPercentage, minProfitThreshold)
    IN  SelectSeq(routes, Keep)

\* "Sort routes by profit percentage (descending)":
\* sort((a, b) => b.estimatedProfitPercentage - a.estimatedProfitPercentage)
SortRoutes(routes) ==
    Items(SortByKey([ i \in DOMAIN routes |->
                        << routes[i].estimatedProfitPercentage, routes[i] >> ],
                    TRUE))

\* arbitrageRoutes when detectArbitrageOpportunities reaches the sync call,
\* from the pairs of each asset that meet the threshold
DetectedFrom(routes, pairs, time) ==
    SortRoutes(AssetLoop(StillProfitable(routes), pairs, 1, time))

DetectedRoutes(routes, cache, time) ==
    DetectedFrom(routes, PairsByAsset(cache), time)

\* the calls of the scorers that detection makes, at the given time: one of
\* each scorer for every pair that meets the threshold, whether or not its
\* route is pushed
ScorerCallsFor(pairs, time) ==
    UNION { { [ buyType |-> pairs[a][k].buyOption.type,
                sellType |-> pairs[a][k].sellOption.type,
                buyExchange |-> pairs[a][k].buyOption.exchange,
                sellExchange |-> pairs[a][k].sellOption.exchange,
                profitPercentage |-> pairs[a][k].netProfitPercentage,
                riskScore |->
                    calculateRiskScore(pairs[a][k].buyOption,
                                       pairs[a][k].sellOption,
                                       pairs[a][k].netProfitPercentage),
                confidence |->
                    calculateConfidence(pairs[a][k].buyOption,
                                        pairs[a][k].sellOption,
                                        pairs[a][k].netProfitPercentage),
                at |-> time ] : k \in DOMAIN pairs[a] } :
            a \in DOMAIN pairs }
(***************************************************************************)
(* The async calls other than executeTrade.  tasks[t] is one call in       *)
(* flight:                                                                 *)
(*   kind      "none" | "tick" | "get" | "detect" | "sync"                 *)
(*   pc        the await it stands at                                      *)
(*   pending   updatePrices: the exchanges whose continuation (the cache   *)
(*             write or the catch) has not run                             *)
(*   rejected  updatePrices: the exchanges whose getPrices rejected        *)
(*   opps      the storageOpps array of the pass                           *)
(*   existing  the array storage.getArbitrageOpportunities() returned      *)
(*   i, j      loop positions in opps and in existing                      *)
(*   creates, updates   storage writes the pass has issued                 *)
(*   caller    of a sync pass: the call that started it, until that call's *)
(*             next segment has run (0 afterwards)                         *)
(*   origin    "timer" for a timer callback and the pass it starts, "call" *)
(*             for a call of a public method and the pass it starts        *)
(***************************************************************************)
\* the places of tasks: a specification's initial state fixes their number
TaskIds == DOMAIN tasks

NoTask ==
    [ kind |-> "none", pc |-> "", pending |-> {}, rejected |-> {},
      opps |-> << >>, existing |-> << >>, i |-> 0, j |-> 0, creates |-> 0,
      updates |-> 0, caller |-> 0, origin |-> "" ]

\* a new call takes the first free place
FreeTask(t) ==
    /\ tasks[t].kind = "none"
    /\ \A u \in TaskIds : u < t => tasks[u].kind # "none"

execVars == << executionHistory, activeExecutions, exec >>

\* the keys of a map in insertion order: every key is a value of currentId,
\* which only grows, so a key inserted later is larger
RECURSIVE KeysInOrder(_)
KeysInOrder(keys) ==
    IF keys = {} THEN << >>
    ELSE LET first == CHOOSE k \in keys : \A m \in keys : k <= m
         IN  << first >> \o KeysInOrder(keys \ { first })

\* storage.getArbitrageOpportunities(): Array.from(map.values())
getArbitrageOpportunities(opps) ==
    LET keys == KeysInOrder(DOMAIN opps)
    IN  [ k \in DOMAIN keys |-> opps[keys[k]] ]

\* the bound on the store: a create is possible
CanCreate == Cardinality(DOMAIN arbitrageOpps) < MaxOpps

\* createGasSaving (POST /api/swap), and likewise createUser,
\* createYieldOpportunity, createPortfolioRisk, createAiConversation and
\* createMarketData: a record that is no opportunity takes the next id of
\* the counter the opportunities share
createGasSaving ==
    /\ ~ TimerTurn
    /\ currentId - firstOpportunityId - Cardinality(DOMAIN arbitrageOpps)
          < MaxOtherCreates
    /\ currentId' = currentId + 1
    /\ UNCHANGED << priceCache, arbitrageRoutes, isMonitoring, monitoringInterval,
                    arbitrageOpps, execVars, metrics, scorerCalls, tasks, now >>

\* startMonitoring (242-261) sets the flag and installs the timer unless
\* the flag is set; both results as a pair << isMonitoring, interval >>
InstallTimer(interval) == [ handle |-> TRUE, timers |-> interval.timers + 1 ]

NoTimer == [ handle |-> FALSE, timers |-> 0 ]

\* a startMonitoring without the isMonitoring guard
StartUnguarded(monitoring, interval) == << TRUE, InstallTimer(interval) >>

startMonitoring(monitoring, interval) ==
    IF monitoring THEN << monitoring, interval >>
    ELSE << TRUE, InstallTimer(interval) >>

StartMonitoring ==
    /\ ~ TimerTurn
    /\ isMonitoring' = startMonitoring(isMonitoring, monitoringInterval)[1]
    /\ monitoringInterval' = startMonitoring(isMonitoring, monitoringInterval)[2]
    /\ UNCHANGED << priceCache, arbitrageRoutes, arbitrageOpps, currentId,
                    execVars, metrics, scorerCalls, tasks, now >>

\* stopMonitoring (266-273)
StopMonitoring ==
    /\ ~ TimerTurn
    /\ monitoringInterval' =
         IF monitoringInterval.handle
         THEN [ handle |-> FALSE, timers |-> monitoringInterval.timers - 1 ]
         ELSE monitoringInterval
    /\ isMonitoring' = FALSE
    /\ UNCHANGED << priceCache, arbitrageRoutes, arbitrageOpps, currentId,
                    execVars, metrics, scorerCalls, tasks, now >>

\* the route projection of syncRoutesToStorage and getOpportunities
StorageOpp(route) ==
    [ asset |-> route.asset,
      buyExchange |-> route.steps[1].exchange,
      sellExchange |-> route.steps[2].exchange,
      buyPrice |-> route.steps[1].expectedPrice,
      sellPrice |-> route.steps[2].expectedPrice,
      profitPercentage |-> route.estimatedProfitPercentage,
      profitAmount |-> route.estimatedProfitAmount,
      isActive |-> TRUE ]

StorageOpps(routes) == [ i \in DOMAIN routes |-> StorageOpp(routes[i]) ]

SameTriple(a, b) ==
    /\ a.asset = b.asset
    /\ a.buyExchange = b.buyExchange
    /\ a.sellExchange = b.sellExchange

\* Math.abs(x - y) < 0.1
WithinTolerance(x, y) == Less(AbsF(Sub(x, y)), sameProfitTolerance)

(***************************************************************************)
(* updatePrices (278-298): one getPrices call per exchange, awaited        *)
(* together.  Every getPrices promise is settled when the call returns     *)
(* (getPrices has no await), so the sixteen continuations are queued one   *)
(* behind the other in the segment that calls updatePrices, and run one    *)
(* after the other, nothing in between, in the same run of the microtask   *)
(* queue: one segment.  The continuation after Promise.all is queued       *)
(* behind them.                                                            *)
(***************************************************************************)
\* exchangeCache.set(asset, price) for every entry of the result
WritePrices(entry, prices) ==
    [ a \in DOMAIN entry \cup DOMAIN prices |->
        IF a \in DOMAIN prices THEN prices[a] ELSE entry[a] ]

\* a catch that drops the cached prices of the exchange that failed
PriceFailsClearing(entry) == NoPrices

\* getPrices rejects: the catch logs and sets connectionStatus, the cached
\* prices of the exchange are left as they are
PriceFails(entry) == entry

\* the first in registry order of the continuations that are queued: what
\* arrives in a run of the queue when each adapter settles in a turn of its
\* own
ArrivingFirst(pending) ==
    { monitoredExchanges[i] : i \in
        { k \in DOMAIN monitoredExchanges :
            /\ monitoredExchanges[k] \in pending
            /\ \A m \in 1 .. (k - 1) : monitoredExchanges[m] \notin pending } }

\* the continuations that run in one run of the microtask queue: all that
\* are queued
Arriving(pending) == pending

\* the first segment of updatePrices as part of the segment of call t that
\* calls it: every getPrices is called, the calls on the exchanges of
\* rejecting reject (none does with the registered adapters)
UpdatePricesStart(t, kind, rejecting) ==
    tasks' = [ tasks EXCEPT ![t] =
        [ NoTask EXCEPT !.kind = kind, !.pc = "sampling",
                        !.pending = ExchangeNames,
                        !.rejected = rejecting,
                        !.i = IF kind = "get" THEN 1 ELSE 0,
                        !.origin = IF kind = "tick" THEN "timer" ELSE "call" ] ]

\* the continuations of the fan-out of call t run: results[e] is what
\* getPrices of exchange e resolved with
PricesArrive(t, results) ==
    /\ tasks[t].pc = "sampling"
    /\ tasks[t].pending # {}
    /\ priceCache' =
         [ e \in ExchangeNames |->
             IF e \notin Arriving(tasks[t].pending) THEN priceCache[e]
             ELSE IF e \in tasks[t].rejected THEN PriceFails(priceCache[e])
             ELSE WritePrices(priceCache[e], results[e]) ]
    /\ tasks' = [ tasks EXCEPT ![t].pending = @ \ Arriving(@) ]
    /\ UNCHANGED << arbitrageRoutes, isMonitoring, monitoringInterval,
                    arbitrageOpps, currentId, execVars, metrics, scorerCalls,
                    now >>

(***************************************************************************)
(* syncRoutesToStorage (705-770).  detectArbitrageOpportunities calls it   *)
(* without await: the pass runs on as a call of its own.  The projection   *)
(* and the read of the store run inside the caller's segment.  The pass    *)
(* reaches its first await before the caller reaches its own, so its       *)
(* continuation is queued ahead of the caller's: the segment of the pass   *)
(* that ends with its first storage write runs, then the caller's next     *)
(* segment, then the rest of the pass.                                     *)
(***************************************************************************)
\* "Skip if already exists"
AlreadyExists(existing, opp) ==
    \E k \in DOMAIN existing :
        /\ SameTriple(existing[k], opp)
        /\ WithinTolerance(existing[k].profitPercentage, opp.profitPercentage)

SyncTask(opps, existing, caller) ==
    [ NoTask EXCEPT !.kind = "sync", !.pc = "writes", !.opps = opps,
                    !.existing = existing, !.i = 1, !.j = 1,
                    !.caller = caller, !.origin = tasks[caller].origin ]

\* where a call goes on after "await this.detectArbitrageOpportunities()"
AfterDetect(kind) == IF kind = "tick" THEN "prune" ELSE "return"

\* the pass u may run a segment: its first, or one after the caller's
Runnable(u) ==
    IF tasks[u].caller = 0 THEN TRUE
    ELSE tasks[tasks[u].caller].pc = "detected"

\* the tasks once the first segment of a pass has run: the continuation of
\* the caller is next in the queue
CallerNext(ts, u) ==
    IF ts[u].caller = 0 THEN ts
    ELSE [ ts EXCEPT ![ts[u].caller].pc = AfterDetect(ts[ts[u].caller].kind) ]

\* the tasks once call t has run the segment after its detection: the
\* passes it started go on
PassesGoOn(ts, t) ==
    [ u \in DOMAIN ts |->
        IF ts[u].kind = "sync" /\ ts[u].caller = t
        THEN [ ts[u] EXCEPT !.caller = 0 ]
        ELSE ts[u] ]

\* positions of opps, from i on, that the create loop does not skip
ToCreate(task) ==
    { k \in task.i .. Len(task.opps) : ~ AlreadyExists(task.existing, task.opps[k]) }

\* the patch of the update loop for a stored opportunity
UpdatePatch(opps, existingOpp) ==
    IF \E k \in DOMAIN opps : SameTriple(opps[k], existingOpp)
    THEN LET k == CHOOSE k \in DOMAIN opps :
                    /\ SameTriple(opps[k], existingOpp)
                    /\ \A m \in DOMAIN opps :
                         SameTriple(opps[m], existingOpp) => k <= m
         IN  [ buyPrice |-> opps[k].buyPrice,
               sellPrice |-> opps[k].sellPrice,
               profitPercentage |-> opps[k].profitPercentage,
               profitAmount |-> opps[k].profitAmount,
               isActive |-> TRUE ]
    ELSE [ isActive |-> FALSE ]

\* One segment of the pass: the next storage write.
SyncStep(t) ==
    /\ tasks[t].kind = "sync"
    /\ Runnable(t)
    /\ LET task == tasks[t] IN
       IF ToCreate(task) # {}
       THEN LET k == CHOOSE k \in ToCreate(task) : \A m \in ToCreate(task) : k <= m
            IN  /\ CanCreate
                /\ arbitrageOpps' =
                     createArbitrageOpportunity(arbitrageOpps, currentId, task.opps[k])
                /\ currentId' = currentId + 1
                /\ tasks' = CallerNext([ tasks EXCEPT ![t].i = k + 1,
                                                       ![t].creates = @ + 1 ], t)
       ELSE /\ task.j <= Len(task.existing)
            /\ arbitrageOpps' =
                 updateArbitrageOpportunity(arbitrageOpps, task.existing[task.j].id,
                     UpdatePatch(task.opps, task.existing[task.j]))
            /\ tasks' = CallerNext([ tasks EXCEPT ![t].i = Len(task.opps) + 1,
                                                   ![t].j = @ + 1,
                                                   ![t].updates = @ + 1 ], t)
            /\ UNCHANGED currentId
    /\ UNCHANGED << priceCache, arbitrageRoutes, isMonitoring, monitoringInterval,
                    execVars, metrics, scorerCalls, now >>

\* The last segment: nothing is left to write, the pass settles.
SyncSettle(t) ==
    /\ tasks[t].kind = "sync"
    /\ ToCreate(tasks[t]) = {}
    /\ tasks[t].j > Len(tasks[t].existing)
    /\ Runnable(t)
    /\ tasks' = [ CallerNext(tasks, t) EXCEPT ![t] = NoTask ]
    /\ UNCHANGED << priceCache, arbitrageRoutes, isMonitoring, monitoringInterval,
                    arbitrageOpps, currentId, execVars, metrics, scorerCalls, now >>

\* detectArbitrageOpportunities as a segment of call t: the routes are
\* detected and sorted, the sync pass is started.
DetectAndSync(t) ==
    /\ tasks[t].pc = "sampling"
    /\ tasks[t].pending = {}
    /\ arbitrageRoutes' = DetectedRoutes(arbitrageRoutes, priceCache, now)
    /\ scorerCalls' = scorerCalls \cup ScorerCallsFor(PairsByAsset(priceCache), now)
    /\ \E u \in TaskIds :
         /\ FreeTask(u)
         /\ tasks' = [ tasks EXCEPT
               ![t].pc = "detected",
               ![u] = SyncTask(StorageOpps(arbitrageRoutes'),
                               getArbitrageOpportunities(arbitrageOpps), t) ]
    /\ UNCHANGED << priceCache, isMonitoring, monitoringInterval, arbitrageOpps,
                    currentId, execVars, metrics, now >>

(***************************************************************************)
(* The timer callback of startMonitoring (252-260):                        *)
(*   await updatePrices(); await detectArbitrageOpportunities();           *)
(*   await pruneExpiredOpportunities()                                     *)
(***************************************************************************)
TickFire(t, rejecting) ==
    /\ monitoringInterval.timers > 0
    /\ ~ MicrotasksQueued
    /\ FreeTask(t)
    /\ UpdatePricesStart(t, "tick", rejecting)
    /\ UNCHANGED << priceCache, arbitrageRoutes, isMonitoring, monitoringInterval,
                    arbitrageOpps, currentId, execVars, metrics, scorerCalls, now >>

TickDetect(t) ==
    /\ tasks[t].kind = "tick"
    /\ DetectAndSync(t)

\* five minutes, in minutes
routeTtl == 5

\* pruneExpiredOpportunities (839-846): the time is read from the route id
Unexpired(routes, time) ==
    LET Keep(r) == r.id[2] > time - routeTtl
    IN  SelectSeq(routes, Keep)

TickPrune(t) ==
    /\ tasks[t].kind = "tick"
    /\ tasks[t].pc = "prune"
    /\ arbitrageRoutes' = Unexpired(arbitrageRoutes, now)
    /\ tasks' = [ PassesGoOn(tasks, t) EXCEPT ![t] = NoTask ]
    /\ UNCHANGED << priceCache, isMonitoring, monitoringInterval, arbitrageOpps,
                    currentId, execVars, metrics, scorerCalls, now >>

\* the clock moves on, between two turns, by the time a route lives
AdvanceTime ==
    /\ ~ MicrotasksQueued
    /\ now < MaxAdvances * routeTtl
    /\ now' = now + routeTtl
    /\ UNCHANGED << priceCache, arbitrageRoutes, isMonitoring, monitoringInterval,
                    arbitrageOpps, currentId, execVars, metrics, scorerCalls, tasks >>

(***************************************************************************)
(* detectNewOpportunities (907-924).                                       *)
(***************************************************************************)
DetectNewStart(t, rejecting) ==
    /\ FreeTask(t)
    /\ ~ TimerTurn
    /\ isMonitoring' = startMonitoring(isMonitoring, monitoringInterval)[1]
    /\ monitoringInterval' = startMonitoring(isMonitoring, monitoringInterval)[2]
    /\ UpdatePricesStart(t, "detect", rejecting)
    /\ UNCHANGED << priceCache, arbitrageRoutes, arbitrageOpps, currentId,
                    execVars, metrics, scorerCalls, now >>

DetectNewDetect(t) ==
    /\ tasks[t].kind = "detect"
    /\ DetectAndSync(t)

\* "Return the latest opportunities from storage"
DetectNewReturn(t) ==
    /\ tasks[t].kind = "detect"
    /\ tasks[t].pc = "return"
    /\ tasks' = [ PassesGoOn(tasks, t) EXCEPT ![t] = NoTask ]
    /\ UNCHANGED << priceCache, arbitrageRoutes, isMonitoring, monitoringInterval,
                    arbitrageOpps, currentId, execVars, metrics, scorerCalls, now >>

(***************************************************************************)
(* getOpportunities (303-351), updateStoredOpportunities (356-389) and     *)
(* fetchAndCreateOpportunities (851-901).                                  *)
(***************************************************************************)
\* the objects getOpportunities maps the routes to: id is parseInt(route.id)
StoredView(routes) ==
    [ i \in DOMAIN routes |->
        [ id |-> NaN,
          asset |-> routes[i].asset,
          buyExchange |-> routes[i].steps[1].exchange,
          sellExchange |-> routes[i].steps[2].exchange,
          buyPrice |-> routes[i].steps[1].expectedPrice,
          sellPrice |-> routes[i].steps[2].expectedPrice,
          profitPercentage |-> routes[i].estimatedProfitPercentage,
          profitAmount |-> routes[i].estimatedProfitAmount,
          isActive |-> TRUE ] ]

\* Segment 1: monitoring is started; with routes in memory
\* updateStoredOpportunities is entered and reads the store, without
\* routes the store is read for the result.
GetStart(t) ==
    /\ FreeTask(t)
    /\ ~ TimerTurn
    /\ isMonitoring' = startMonitoring(isMonitoring, monitoringInterval)[1]
    /\ monitoringInterval' = startMonitoring(isMonitoring, monitoringInterval)[2]
    /\ tasks' = [ tasks EXCEPT ![t] =
          [ NoTask EXCEPT
              !.kind = "get",
              !.origin = "call",
              !.pc = IF arbitrageRoutes # << >> THEN "stored" ELSE "list",
              !.opps = StoredView(arbitrageRoutes),
              !.existing = getArbitrageOpportunities(arbitrageOpps),
              !.i = 1 ] ]
    /\ UNCHANGED << priceCache, arbitrageRoutes, arbitrageOpps, currentId,
                    execVars, metrics, scorerCalls, now >>

\* currentOpps.find(o => same asset, buyExchange, sellExchange)
FindStored(existing, opp) ==
    LET hits == { k \in DOMAIN existing : SameTriple(existing[k], opp) }
    IN  IF hits = {} THEN << >>
        ELSE << existing[CHOOSE k \in hits : \A m \in hits : k <= m] >>

\* One iteration of the loop of updateStoredOpportunities: an update of the
\* stored opportunity of the same triple, or a create.  After the last
\* iteration getOpportunities reads the store.
GetStoredStep(t) ==
    /\ tasks[t].kind = "get"
    /\ tasks[t].pc = "stored"
    /\ LET task == tasks[t] IN
       IF task.i <= Len(task.opps)
       THEN LET opp == task.opps[task.i]
                hit == FindStored(task.existing, opp)
            IN  /\ IF hit # << >>
                   THEN /\ arbitrageOpps' =
                             updateArbitrageOpportunity(arbitrageOpps, hit[1].id, opp)
                        /\ UNCHANGED currentId
                   ELSE /\ CanCreate
                        /\ arbitrageOpps' =
                             createArbitrageOpportunity(arbitrageOpps, currentId, opp)
                        /\ currentId' = currentId + 1
                /\ tasks' = [ tasks EXCEPT ![t].i = @ + 1 ]
       ELSE /\ tasks' = [ tasks EXCEPT
                  ![t].pc = "list",
                  ![t].existing = getArbitrageOpportunities(arbitrageOpps) ]
            /\ UNCHANGED << arbitrageOpps, currentId >>
    /\ UNCHANGED << priceCache, arbitrageRoutes, isMonitoring, monitoringInterval,
                    execVars, metrics, scorerCalls, now >>

\* The store has been read: a non-empty list is returned; with an empty
\* one fetchAndCreateOpportunities starts with updatePrices.
GetList(t, rejecting) ==
    /\ tasks[t].kind = "get"
    /\ tasks[t].pc = "list"
    /\ IF tasks[t].existing = << >>
       THEN UpdatePricesStart(t, "get", rejecting)
       ELSE tasks' = [ tasks EXCEPT ![t] = NoTask ]
    /\ UNCHANGED << priceCache, arbitrageRoutes, isMonitoring, monitoringInterval,
                    arbitrageOpps, currentId, execVars, metrics, scorerCalls, now >>

\* fetchAndCreateOpportunities after updatePrices: one create a segment
GetSampleStep(t) ==
    /\ tasks[t].kind = "get"
    /\ tasks[t].pc = "sampling"
    /\ tasks[t].pending = {}
    /\ tasks[t].i <= Len(opportunitiesData)
    /\ CanCreate
    /\ arbitrageOpps' =
         createArbitrageOpportunity(arbitrageOpps, currentId,
                                    opportunitiesData[tasks[t].i])
    /\ currentId' = currentId + 1
    /\ tasks' = [ tasks EXCEPT ![t].i = @ + 1 ]
    /\ UNCHANGED << priceCache, arbitrageRoutes, isMonitoring, monitoringInterval,
                    execVars, metrics, scorerCalls, now >>

\* "return await storage.getArbitrageOpportunities()"
GetReturn(t) ==
    /\ tasks[t].kind = "get"
    /\ tasks[t].pc = "sampling"
    /\ tasks[t].pending = {}
    /\ tasks[t].i > Len(opportunitiesData)
    /\ tasks' = [ tasks EXCEPT ![t] = NoTask ]
    /\ UNCHANGED << priceCache, arbitrageRoutes, isMonitoring, monitoringInterval,
                    arbitrageOpps, currentId, execVars, metrics, scorerCalls, now >>

(***************************************************************************)
(* getPerformanceMetrics (929-978).  No await: one segment.                *)
(*                                                                         *)
(* The history holds the attempts whose summaries were pushed; the fields  *)
(* of a summary that executeTrade computes from the trade results          *)
(* (508-535) are computed here from the recorded steps, and the price and  *)
(* the fee of a recorded step as the adapter computes them (192-201).      *)
(* executionTimeMs is the field of the summary: the time the legs of the   *)
(* attempt have waited.                                                    *)
(***************************************************************************)
\* the adapter's basePrice table
basePriceTable ==
    [ BTC |-> Dec(6584250, 2), ETH |-> Dec(324589, 2), SOL |-> Dec(10347, 2),
      MATIC |-> Dec(87, 2), AVAX |-> Dec(3425, 2), BNB |-> Dec(60312, 2),
      ARB |-> Dec(123, 2) ]

\* { ... }[asset] || 1.0
basePrice(asset) == OrElse(basePriceTable, asset, One)

Ten == FromInt(10)

\* basePrice * (1 + slippage) for a buy, basePrice * (1 - slippage) for a
\* sell, with slippage = amount > 10 ? 0.002 : 0.0005, for every asset,
\* side and size of order
SlippedPrice(price, side, slippage) ==
    IF side = "buy" THEN Mul(price, Add(One, slippage))
    ELSE Mul(price, Sub(One, slippage))

executionPriceTable ==
    [ asset \in AssetNames, side \in { "buy", "sell" }, large \in BOOLEAN |->
        SlippedPrice(basePrice(asset), side,
                     IF large THEN Dec(2, 3) ELSE Dec(5, 4)) ]

executionPrice(asset, amount, side) ==
    executionPriceTable[asset, side, Greater(amount, Ten)]

\* amount * executionPrice * feeRate
tradeFee(type, amount, price) == Mul(Mul(amount, price), feeRate(type))

\* "All steps succeeded": the profit block of executeTrade has run
ProfitComputed(summary) ==
    /\ Len(summary.steps) = 2
    /\ \A i \in DOMAIN summary.steps : summary.steps[i].success

StepOf(summary, action) ==
    summary.steps[CHOOSE i \in DOMAIN summary.steps :
                     /\ summary.steps[i].action = action
                     /\ \A j \in DOMAIN summary.steps :
                           summary.steps[j].action = action => i <= j]

\* buyTotal = amount * actualPrice + fee; sellTotal = amount * actualPrice - fee
TotalWithFee(action, gross, fee) ==
    IF action = "buy" THEN Add(gross, fee) ELSE Sub(gross, fee)

TotalAt(step, price) ==
    TotalWithFee(step.action, Mul(step.amount, price),
                 tradeFee(getExchangeType(step.exchange), step.amount, price))

StepTotal(asset, step) ==
    TotalAt(step, executionPrice(asset, step.amount, step.action))

\* the totals of the buy step and of the sell step
StepTotals(summary) ==
    [ action \in { "buy", "sell" } |->
        StepTotal(summary.asset, StepOf(summary, action)) ]

SellLessBuy(totals) == Sub(totals["sell"], totals["buy"])

\* actualProfit: 0 as created, sellTotal - buyTotal after the last leg
actualProfit(summary) ==
    IF ProfitComputed(summary) THEN SellLessBuy(StepTotals(summary)) ELSE Zero

profitDifference(summary) ==
    IF ProfitComputed(summary)
    THEN Sub(actualProfit(summary), summary.expectedProfit)
    ELSE Zero

\* gasPrice * gasLimit * 1e-9 * ethPrice with gasPrice 50 and ethPrice
\* 3245.89, for the gasLimit 250000 and for the gasLimit 150000
gasCostUni == Mul(Mul(FromInt(50 * 250000), Dec(1, 9)), Dec(324589, 2))

gasCostOther == Mul(Mul(FromInt(50 * 150000), Dec(1, 9)), Dec(324589, 2))

\* buyStep.exchange.includes('Uni'): of the registered names, Uniswap
gasCost(summary) ==
    IF ProfitComputed(summary)
    THEN IF StepOf(summary, "buy").exchange = "Uniswap" THEN gasCostUni
         ELSE gasCostOther
    ELSE Zero

\* netProfit: 0 as created, actualProfit - gasCost after the last leg
netProfit(summary) ==
    IF ProfitComputed(summary)
    THEN Sub(actualProfit(summary), gasCost(summary))
    ELSE Zero

RECURSIVE SumSeq(_)
SumSeq(s) == IF s = << >> THEN 0 ELSE s[1] + SumSeq(Tail(s))

\* reduce((sum, x) => sum + x, start) over numbers
RECURSIVE SumFrom(_, _)
SumFrom(start, s) ==
    IF s = << >> THEN start ELSE SumFrom(Add(start, s[1]), Tail(s))

\* profitByAsset[asset] = (profitByAsset[asset] || 0) + netProfit, over the
\* profits of one asset in order
RECURSIVE SumOrZero(_, _)
SumOrZero(sum, s) ==
    IF s = << >> THEN sum
    ELSE SumOrZero(Add(IF Truthy(sum) THEN sum ELSE Zero, s[1]), Tail(s))

\* (profitDifference / expectedProfit) * 100
DifferencePercentage(summary) ==
    Mul(Div(profitDifference(summary), summary.expectedProfit), Hundred)

\* the executionHistory array: the summary objects the entries refer to
Summaries(history) == [ i \in DOMAIN history |-> exec[history[i]].summary ]

\* The strings that end in '%' are reported without the sign, as ToFixed
\* gives them; averageExecutionTimeMs is Math.round of a quotient of whole
\* numbers.
MetricsOf(history, nets) ==
    LET totalExecutions == Len(history)
        succeeded(e) == e.success
        successes == SelectSeq(history, succeeded)
        successfulExecutions == Len(successes)
        successRate ==
            IF totalExecutions > 0
            THEN Mul(Div(FromInt(successfulExecutions), FromInt(totalExecutions)),
                     Hundred)
            ELSE Zero
        totalProfit ==
            SumFrom(Zero, [ i \in DOMAIN history |->
                              IF history[i].success THEN nets[i] ELSE Zero ])
        avgExecutionTime ==
            IF totalExecutions > 0
            THEN (2 * SumSeq([ i \in DOMAIN history |-> history[i].executionTimeMs ])
                     + totalExecutions) \div (2 * totalExecutions)
            ELSE 0
        OfAsset(a) ==
            LET Is(i) == history[i].success /\ history[i].asset = a
                idx == SelectSeq([ i \in DOMAIN history |-> i ], Is)
            IN  [ k \in DOMAIN idx |-> nets[idx[k]] ]
        profitByAsset ==
            [ a \in { successes[i].asset : i \in DOMAIN successes } |->
                SumOrZero(Zero, OfAsset(a)) ]
        avgProfitExpectationDiff ==
            IF successfulExecutions > 0
            THEN Div(SumFrom(Zero, [ i \in DOMAIN successes |->
                                       DifferencePercentage(successes[i]) ]),
                     FromInt(successfulExecutions))
            ELSE Zero
        first == Max(1, totalExecutions - 4)
    IN  [ totalExecutions |-> totalExecutions,
          successfulExecutions |-> successfulExecutions,
          successRate |-> ToFixed(successRate, 2),
          totalProfit |-> ToFixed(totalProfit, 2),
          averageExecutionTimeMs |-> avgExecutionTime,
          profitByAsset |-> profitByAsset,
          profitExpectationAccuracy |->
              ToFixed(Sub(Hundred, AbsF(avgProfitExpectationDiff)), 2),
          recentExecutions |->
              [ i \in 1 .. (totalExecutions - first + 1) |->
                  [ asset |-> history[first + i - 1].asset,
                    success |-> history[first + i - 1].success,
                    profit |-> ToFixed(nets[first + i - 1], 2),
                    executionTime |-> history[first + i - 1].executionTimeMs ] ] ]

getPerformanceMetrics(history) ==
    MetricsOf(history, [ i \in DOMAIN history |-> netProfit(history[i]) ])

GetPerformanceMetrics ==
    /\ ~ TimerTurn
    /\ metrics' = << getPerformanceMetrics(Summaries(executionHistory)) >>
    /\ UNCHANGED << priceCache, arbitrageRoutes, isMonitoring, monitoringInterval,
                    arbitrageOpps, currentId, execVars, scorerCalls, tasks, now >>

(***************************************************************************)
(* SpecExec: the execution orchestrator alone.  It starts where a first    *)
(* getOpportunities call leaves a new service: monitoring started, the     *)
(* cache sampled once, the three demonstration opportunities stored under  *)
(* the identifiers 2, 3, 4.  Every leg takes the shortest wait.            *)
(***************************************************************************)
StoreOf(datas, first) ==
    [ k \in first .. (first + Len(datas) - 1) |->
        [ id |-> k,
          asset |-> datas[k - first + 1].asset,
          buyExchange |-> datas[k - first + 1].buyExchange,
          sellExchange |-> datas[k - first + 1].sellExchange,
          buyPrice |-> datas[k - first + 1].buyPrice,
          sellPrice |-> datas[k - first + 1].sellPrice,
          profitPercentage |-> datas[k - first + 1].profitPercentage,
          profitAmount |-> datas[k - first + 1].profitAmount,
          isActive |-> datas[k - first + 1].isActive ] ]

\* the cache after one sampling in which Math.random() returned 0.5
MidCache == [ e \in ExchangeNames |-> getPrices(e, MidRandoms) ]

\* the cache of a new service
EmptyCache == [ e \in ExchangeNames |-> NoPrices ]

\* setTimeout(resolve, 500 + Math.random() * 1000) of the adapter's
\* executeTrade, in whole milliseconds, for Math.random() = thousandths / 1000
legWaitMs(thousandths) == 500 + thousandths

\* the waits explored: Math.random() = 0, and Math.random() = 0 or 0.7
ShortestWait == { legWaitMs(0) }

LegWaits == { legWaitMs(0), legWaitMs(700) }

InitExec ==
    /\ priceCache = MidCache
    /\ arbitrageRoutes = << >>
    /\ executionHistory = << >>
    /\ isMonitoring = TRUE
    /\ monitoringInterval = InstallTimer(NoTimer)
    /\ activeExecutions = 0
    /\ arbitrageOpps = StoreOf(opportunitiesData, firstOpportunityId)
    /\ currentId = firstOpportunityId + Len(opportunitiesData)
    /\ exec = [ p \in Attempts |-> IdleCall ]
    /\ scorerCalls = {}
    /\ tasks = [ t \in 1 .. MaxTasks |-> NoTask ]
    /\ now = 0
    /\ metrics = << >>

NextExec ==
    \/ \E p \in Attempts, id \in RequestIds : ExecStart(p, id)
    \/ \E p \in Attempts : ExecLookupDone(p)
    \/ \E p \in Attempts, ok \in BOOLEAN, waitMs \in ShortestWait :
         ExecLegDone(p, ok, waitMs)
    \/ \E p \in Attempts : ExecDeactivateDone(p)
    \/ \E p \in Attempts : ExecOkxDone(p)
    \/ createGasSaving

SpecExec == InitExec /\ [][NextExec]_vars

(***************************************************************************)
(* SpecMonitor: the monitoring side from construction: the timer, price    *)
(* sampling, detection, the store sync, getOpportunities and               *)
(* detectNewOpportunities, and the creation of other records in the store. *)
(* No trade is requested.                                                  *)
(***************************************************************************)
InitMonitor ==
    /\ priceCache = EmptyCache
    /\ arbitrageRoutes = << >>
    /\ executionHistory = << >>
    /\ isMonitoring = FALSE
    /\ monitoringInterval = NoTimer
    /\ activeExecutions = 0
    /\ arbitrageOpps = << >>
    /\ currentId = firstOpportunityId
    /\ exec = [ p \in Attempts |-> IdleCall ]
    /\ scorerCalls = {}
    /\ tasks = [ t \in 1 .. MaxTasks |-> NoTask ]
    /\ now = 0
    /\ metrics = << >>

\* no getPrices call rejects
NoneRejects == { {} }

NextMonitor ==
    \/ StartMonitoring
    \/ StopMonitoring
    \/ AdvanceTime
    \/ createGasSaving
    \/ \E t \in TaskIds, rejecting \in NoneRejects : TickFire(t, rejecting)
    \/ \E t \in TaskIds, results \in Results : PricesArrive(t, results)
    \/ \E t \in TaskIds : TickDetect(t)
    \/ \E t \in TaskIds : TickPrune(t)
    \/ \E t \in TaskIds : SyncStep(t)
    \/ \E t \in TaskIds : SyncSettle(t)
    \/ \E t \in TaskIds, rejecting \in NoneRejects : DetectNewStart(t, rejecting)
    \/ \E t \in TaskIds : DetectNewDetect(t)
    \/ \E t \in TaskIds : DetectNewReturn(t)
    \/ \E t \in TaskIds : GetStart(t)
    \/ \E t \in TaskIds : GetStoredStep(t)
    \/ \E t \in TaskIds, rejecting \in NoneRejects : GetList(t, rejecting)
    \/ \E t \in TaskIds : GetSampleStep(t)
    \/ \E t \in TaskIds : GetReturn(t)

SpecMonitor == InitMonitor /\ [][NextMonitor]_vars

(***************************************************************************)
(* SpecSampling: the monitoring side from construction when getPrices of   *)
(* Jupiter or of Raydium may reject, for the catch of updatePrices.  No    *)
(* registered adapter rejects; the Exchange interface allows it.           *)
(***************************************************************************)
NextSampling ==
    \/ StartMonitoring
    \/ \E t \in TaskIds, rejecting \in SUBSET MayReject : TickFire(t, rejecting)
    \/ \E t \in TaskIds, results \in Results : PricesArrive(t, results)
    \/ \E t \in TaskIds : TickDetect(t)
    \/ \E t \in TaskIds : TickPrune(t)
    \/ \E t \in TaskIds : SyncStep(t)
    \/ \E t \in TaskIds : SyncSettle(t)
    \/ \E t \in TaskIds, rejecting \in SUBSET MayReject :
         DetectNewStart(t, rejecting)
    \/ \E t \in TaskIds : DetectNewDetect(t)
    \/ \E t \in TaskIds : DetectNewReturn(t)
    \/ \E t \in TaskIds : GetStart(t)
    \/ \E t \in TaskIds : GetStoredStep(t)
    \/ \E t \in TaskIds, rejecting \in SUBSET MayReject : GetList(t, rejecting)
    \/ \E t \in TaskIds : GetSampleStep(t)
    \/ \E t \in TaskIds : GetReturn(t)

SpecSampling == InitMonitor /\ [][NextSampling]_vars

(***************************************************************************)
(* SpecTrade: one executeTrade call while the monitoring timer runs, from  *)
(* the state SpecExec starts in.                                           *)
(***************************************************************************)
\* the one call of SpecTrade is the first to arrive
firstCall == CHOOSE p \in Attempts : \A q \in Attempts : p <= q

NextTrade ==
    \/ \E t \in TaskIds, rejecting \in NoneRejects : TickFire(t, rejecting)
    \/ \E t \in TaskIds, results \in Results : PricesArrive(t, results)
    \/ \E t \in TaskIds : TickDetect(t)
    \/ \E t \in TaskIds : TickPrune(t)
    \/ \E t \in TaskIds : SyncStep(t)
    \/ \E t \in TaskIds : SyncSettle(t)
    \/ \E id \in RequestIds : ExecStart(firstCall, id)
    \/ ExecLookupDone(firstCall)
    \/ \E ok \in BOOLEAN, waitMs \in ShortestWait :
         ExecLegDone(firstCall, ok, waitMs)
    \/ ExecDeactivateDone(firstCall)
    \/ ExecOkxDone(firstCall)

SpecTrade == InitExec /\ [][NextTrade]_vars

(***************************************************************************)
(* SpecMetrics: getPerformanceMetrics between the turns of the first two   *)
(* executeTrade calls, from the state SpecExec starts in.  A leg takes the *)
(* shortest wait or a longer one.                                          *)
(***************************************************************************)
MetricCalls == { p \in Attempts : p <= 2 }

NextMetrics ==
    \/ \E p \in MetricCalls, id \in RequestIds : ExecStart(p, id)
    \/ \E p \in MetricCalls : ExecLookupDone(p)
    \/ \E p \in MetricCalls, ok \in BOOLEAN, waitMs \in LegWaits :
         ExecLegDone(p, ok, waitMs)
    \/ \E p \in MetricCalls : ExecDeactivateDone(p)
    \/ \E p \in MetricCalls : ExecOkxDone(p)
    \/ GetPerformanceMetrics

SpecMetrics == InitExec /\ [][NextMetrics]_vars

(***************************************************************************)
(* SpecDetect: timer callbacks and detectNewOpportunities calls on a new   *)
(* service on which monitoring was started, over the quotes with which     *)
(* detection finds up to four routes in a cycle.                           *)
(***************************************************************************)
\* a new service after startMonitoring, with room for calls tasks in flight
Monitoring(calls) ==
    /\ priceCache = EmptyCache
    /\ arbitrageRoutes = << >>
    /\ executionHistory = << >>
    /\ isMonitoring = TRUE
    /\ monitoringInterval = InstallTimer(NoTimer)
    /\ activeExecutions = 0
    /\ arbitrageOpps = << >>
    /\ currentId = firstOpportunityId
    /\ exec = [ p \in Attempts |-> IdleCall ]
    /\ scorerCalls = {}
    /\ tasks = [ t \in 1 .. calls |-> NoTask ]
    /\ now = 0
    /\ metrics = << >>

InitDetect == Monitoring(MaxTasks)

NextDetect ==
    \/ \E t \in TaskIds, rejecting \in NoneRejects : TickFire(t, rejecting)
    \/ \E t \in TaskIds, results \in WideResults : PricesArrive(t, results)
    \/ \E t \in TaskIds : TickDetect(t)
    \/ \E t \in TaskIds : TickPrune(t)
    \/ \E t \in TaskIds : SyncStep(t)
    \/ \E t \in TaskIds : SyncSettle(t)
    \/ \E t \in TaskIds, rejecting \in NoneRejects : DetectNewStart(t, rejecting)
    \/ \E t \in TaskIds : DetectNewDetect(t)
    \/ \E t \in TaskIds : DetectNewReturn(t)

SpecDetect == InitDetect /\ [][NextDetect]_vars

(***************************************************************************)
(* SpecOverlap: timer callbacks and detectNewOpportunities calls on a new  *)
(* service on which monitoring was started, with room for two calls and a  *)
(* sync pass in flight together.                                           *)
(***************************************************************************)
InitOverlap == Monitoring(MaxTasks + 1)

NextOverlap ==
    \/ \E t \in TaskIds, rejecting \in NoneRejects : TickFire(t, rejecting)
    \/ \E t \in TaskIds, results \in Results : PricesArrive(t, results)
    \/ \E t \in TaskIds : TickDetect(t)
    \/ \E t \in TaskIds : TickPrune(t)
    \/ \E t \in TaskIds : SyncStep(t)
    \/ \E t \in TaskIds : SyncSettle(t)
    \/ \E t \in TaskIds, rejecting \in NoneRejects : DetectNewStart(t, rejecting)
    \/ \E t \in TaskIds : DetectNewDetect(t)
    \/ \E t \in TaskIds : DetectNewReturn(t)

SpecOverlap == InitOverlap /\ [][NextOverlap]_vars

(***************************************************************************)
(* Properties of the execution orchestrator, checked under SpecExec.       *)
(***************************************************************************)
InFlight(p) == exec[p].pc \in { "lookup", "leg", "deactivate", "okx" }

\* number of entries of the history that are attempt p's summary
Recorded(history, p) == Cardinality({ i \in DOMAIN history : history[i] = p })

\* C1: in every reachable state the number of executions holding a slot is
\* between 0 and maxConcurrentExecutions.
C1_SlotsWithinLimit ==
    /\ 0 <= activeExecutions
    /\ activeExecutions <= maxConcurrentExecutions

\* three attempts hold the three slots and a fourth request has been refused
C1_Witness ==
    /\ activeExecutions = maxConcurrentExecutions
    /\ Cardinality({ p \in Attempts : InFlight(p) }) = maxConcurrentExecutions
    /\ \E p \in Attempts : exec[p].result = "Throttled"

\* C2: every attempt that acquires a slot releases it exactly once on every
\* exit path: the counter equals the number of attempts in flight, so it is 0
\* once all started attempts have finished and never below the number still
\* in flight.
C2_SlotReleasedOnce ==
    activeExecutions = Cardinality({ p \in Attempts : InFlight(p) })

\* four attempts have taken a slot and have finished, one on each exit path
\* (success, NotFound, Stale, a failed leg), and no slot is held
C2_Witness ==
    /\ \A p \in Attempts : exec[p].pc = "done"
    /\ { exec[p].result : p \in Attempts }
          = { "Success", "NotFound", "Stale", "LegFailure" }
    /\ activeExecutions = 0

\* C3: each attempt that got past validation and slot acquisition has, once
\* it has finished, exactly one summary in the history, and never two.
C3_OneSummaryPerAttempt ==
    \A p \in Attempts :
        /\ Recorded(executionHistory, p) <= 1
        /\ (exec[p].pc = "done" /\ exec[p].summary # << >>)
              => Recorded(executionHistory, p) = 1

\* an attempt has returned success, another has failed on a leg, and each
\* has its one summary in the history
C3_Witness ==
    \E p, q \in Attempts :
        /\ exec[p].result = "Success"
        /\ exec[q].result = "LegFailure"
        /\ Recorded(executionHistory, p) = 1
        /\ Recorded(executionHistory, q) = 1

\* the buy leg of attempt p has reported failure
BuyLegFailed(call) ==
    /\ call.summary # << >>
    /\ Len(call.summary.steps) >= 1
    /\ call.summary.steps[1].action = "buy"
    /\ ~ call.summary.steps[1].success

\* C6: when the buy leg reports failure the sell leg is never attempted, a
\* summary with success = false holding the buy leg's error is appended to
\* the history, and the slot is released, all in the step that receives the
\* failure.
C6_BuyFailureAborts ==
    /\ [] (\A p \in Attempts :
             BuyLegFailed(exec[p]) =>
                /\ \A i \in DOMAIN exec[p].legs : exec[p].legs[i].action # "sell"
                /\ exec[p].pc = "done"
                /\ Recorded(executionHistory, p) = 1
                /\ ~ exec[p].summary.success
                /\ exec[p].summary.steps[1].error # "")
    /\ [][ \A p \in Attempts :
             (~ BuyLegFailed(exec[p]) /\ BuyLegFailed(exec'[p])) =>
                /\ executionHistory' = Append(executionHistory, p)
                /\ activeExecutions' = activeExecutions - 1 ]_vars

\* a buy leg has failed while another attempt is still in flight
C6_Witness ==
    \E p, q \in Attempts :
        /\ BuyLegFailed(exec[p])
        /\ exec[p].pc = "done"
        /\ InFlight(q)
        /\ activeExecutions >= 1

\* C8: a request for an identifier that is not in the store fails with
\* NotFound, one for an inactive opportunity with Stale: the request reaches
\* the lookup, the lookup ends the attempt with that error, no leg is
\* executed and the store is not written.
C8_NotFoundAndStale ==
    [][ \A p \in Attempts :
          /\ ( /\ exec[p].pc = "idle"
               /\ exec'[p].pc # "idle"
               /\ \/ exec'[p].oppId \notin DOMAIN arbitrageOpps
                  \/ ~ arbitrageOpps[exec'[p].oppId].isActive )
             => exec'[p].pc = "lookup"
          /\ ( /\ exec[p].pc = "lookup"
               /\ exec'[p].pc # "lookup"
               /\ exec[p].found = << >> )
             => ( /\ exec'[p].result = "NotFound"
                  /\ exec'[p].legs = << >>
                  /\ arbitrageOpps' = arbitrageOpps )
          /\ ( /\ exec[p].pc = "lookup"
               /\ exec'[p].pc # "lookup"
               /\ exec[p].found # << >>
               /\ ~ exec[p].found[1].isActive )
             => ( /\ exec'[p].result = "Stale"
                  /\ exec'[p].legs = << >>
                  /\ arbitrageOpps' = arbitrageOpps ) ]_vars

\* the net profit percentage of an opportunity's pair at the prices now in
\* the cache: << >> when a price is missing
CachedNetProfit(cache, opportunity) ==
    IF /\ opportunity.asset \in DOMAIN cache[opportunity.buyExchange]
       /\ opportunity.asset \in DOMAIN cache[opportunity.sellExchange]
    THEN << netProfitPercentage(
              cache[opportunity.buyExchange][opportunity.asset],
              cache[opportunity.sellExchange][opportunity.asset],
              getExchangeType(opportunity.buyExchange),
              getExchangeType(opportunity.sellExchange)) >>
    ELSE << >>

Unprofitable(cache, opportunity) ==
    /\ CachedNetProfit(cache, opportunity) # << >>
    /\ Less(CachedNetProfit(cache, opportunity)[1], minProfitThreshold)

\* C9: the step that validates a request recomputes the net profit
\* percentage from the cache and, when it is below minProfitThreshold, ends
\* the attempt with NoLongerProfitable and executes no leg.
C9_Revalidation ==
    [][ \A p \in Attempts :
          ( /\ exec[p].pc = "lookup"
            /\ exec'[p].pc # "lookup"
            /\ exec[p].found # << >>
            /\ exec[p].found[1].isActive
            /\ Unprofitable(priceCache, exec[p].found[1]) )
          => ( /\ exec'[p].result = "NoLongerProfitable"
               /\ exec'[p].legs = << >> ) ]_vars

\* the first four requests are concurrent: when the fourth arrives the
\* first three are still at their first await
FourConcurrent ==
    /\ \A p \in 1 .. maxConcurrentExecutions :
          exec[p].pc = "lookup" /\ exec[p].oppId \in DOMAIN arbitrageOpps
    /\ exec[maxConcurrentExecutions + 1].pc # "idle"
    /\ exec[maxConcurrentExecutions + 1].oppId \in DOMAIN arbitrageOpps

\* C10: a request that arrives while maxConcurrentExecutions executions hold
\* slots fails in its first step with Throttled, is not queued and executes
\* no leg; of four concurrent requests on valid opportunities exactly one is
\* Throttled.
C10_ThrottledAtOnce ==
    /\ [][ \A p \in Attempts :
             ( /\ exec[p].pc = "idle"
               /\ exec'[p].pc # "idle"
               /\ activeExecutions = maxConcurrentExecutions )
             => ( /\ exec'[p].pc = "done"
                  /\ exec'[p].result = "Throttled"
                  /\ exec'[p].legs = << >>
                  /\ activeExecutions' = activeExecutions ) ]_vars
    /\ [] (FourConcurrent =>
             Cardinality({ p \in 1 .. (maxConcurrentExecutions + 1) :
                             exec[p].result = "Throttled" }) = 1)

C10_Witness ==
    /\ FourConcurrent
    /\ exec[maxConcurrentExecutions + 1].result = "Throttled"
    /\ exec[maxConcurrentExecutions + 1].legs = << >>

(***************************************************************************)
(* Properties of an execution beside the monitoring timer, checked under   *)
(* SpecTrade.                                                              *)
(***************************************************************************)
\* the step in which executeTrade call p returns its result
ReturnsSuccess(p) == exec[p].result = "" /\ exec'[p].result = "Success"

\* C7: when both legs of an attempt succeed, a summary with success = true
\* is in the history and the executed opportunity is inactive in the store
\* when executeTrade returns.
C7_SuccessDeactivates ==
    [][ \A p \in Attempts :
          ReturnsSuccess(p) =>
             /\ Recorded(executionHistory', p) >= 1
             /\ exec'[p].summary.success
             /\ ~ arbitrageOpps'[exec'[p].oppId].isActive ]_vars

(***************************************************************************)
(* Properties of the opportunity store, checked under SpecMonitor.         *)
(***************************************************************************)
\* C4: at most one opportunity with isActive = true exists per
\* (asset, buyExchange, sellExchange) triple.
C4_OneActivePerTriple ==
    \A a, b \in DOMAIN arbitrageOpps :
        ( /\ a # b
          /\ arbitrageOpps[a].isActive
          /\ arbitrageOpps[b].isActive )
        => ~ SameTriple(arbitrageOpps[a], arbitrageOpps[b])

\* the store read at the head of a pass is what a settled pass over the
\* same routes leaves: nothing to create, and every stored opportunity
\* already carries what the update loop writes to it
Settled(opps, existing) ==
    /\ \A k \in DOMAIN opps : AlreadyExists(existing, opps[k])
    /\ \A k \in DOMAIN existing :
          MergeOpportunity(existing[k], UpdatePatch(opps, existing[k])) = existing[k]

\* C5: a sync pass run again with the same route list, after a first pass
\* has settled and with no other change, issues no create and no update.
C5_SyncIdempotent ==
    \A t \in TaskIds :
        ( /\ tasks[t].kind = "sync"
          /\ Settled(tasks[t].opps, tasks[t].existing) )
        => ( tasks[t].creates = 0 /\ tasks[t].updates = 0 )

(***************************************************************************)
(* Properties of detection, checked under SpecMonitor.                     *)
(***************************************************************************)
\* the buy and sell options a route was built from
BuyOptionOf(route) ==
    [ exchange |-> route.steps[1].exchange, type |-> route.steps[1].type,
      price |-> route.steps[1].expectedPrice ]

SellOptionOf(route) ==
    [ exchange |-> route.steps[2].exchange, type |-> route.steps[2].type,
      price |-> route.steps[2].expectedPrice ]

\* C11: every route held in arbitrageRoutes has an estimated net profit
\* percentage, after fees, of at least minProfitThreshold.
C11_RoutesMeetThreshold ==
    \A i \in DOMAIN arbitrageRoutes :
        /\ AtLeast(arbitrageRoutes[i].estimatedProfitPercentage,
                   minProfitThreshold)
        /\ arbitrageRoutes[i].estimatedProfitPercentage =
              netProfitPercentage(arbitrageRoutes[i].steps[1].expectedPrice,
                                  arbitrageRoutes[i].steps[2].expectedPrice,
                                  arbitrageRoutes[i].steps[1].type,
                                  arbitrageRoutes[i].steps[2].type)

\* a detection cycle has run on a cache that holds a pair below the
\* threshold, and a route detected earlier is held
C11_Witness ==
    /\ arbitrageRoutes # << >>
    /\ \E t \in TaskIds : tasks[t].kind = "tick" /\ tasks[t].pc = "prune"
    /\ \A e \in VariedVenues(Quotes) : "SOL" \in DOMAIN priceCache[e]
    /\ \A e, f \in VariedVenues(Quotes) :
          Less(netProfitPercentage(priceCache[e]["SOL"], priceCache[f]["SOL"],
                                   getExchangeType(e), getExchangeType(f)),
               minProfitThreshold)

\* C12: every route produced by detection, and every opportunity the store
\* sync creates from a route, has a buy exchange different from its sell
\* exchange.
C12_BuyAndSellDiffer ==
    /\ \A i \in DOMAIN arbitrageRoutes :
          arbitrageRoutes[i].steps[1].exchange # arbitrageRoutes[i].steps[2].exchange
    /\ \A t \in TaskIds : \A k \in DOMAIN tasks[t].opps :
          tasks[t].opps[k].buyExchange # tasks[t].opps[k].sellExchange
    /\ \A id \in DOMAIN arbitrageOpps :
          arbitrageOpps[id].buyExchange # arbitrageOpps[id].sellExchange

\* a sync pass has created an opportunity from a detected route
C12_Witness ==
    \E t \in TaskIds :
        /\ tasks[t].kind = "sync"
        /\ tasks[t].creates >= 1
        /\ arbitrageRoutes # << >>

\* call t of detectNewOpportunities reads the store and returns
DetectNewReturns(t) ==
    /\ tasks[t].kind = "detect"
    /\ tasks[t].pc = "return"
    /\ tasks'[t].kind = "none"

\* C13: when detectNewOpportunities returns, every route held in memory has
\* a matching active opportunity in the list it returns, the store as read
\* at the return: an opportunity of the route's asset and exchanges whose
\* isActive is true.
C13_ReturnsSyncedStore ==
    [][ \A t \in TaskIds :
          DetectNewReturns(t) =>
              \A i \in DOMAIN arbitrageRoutes :
                  \E id \in DOMAIN arbitrageOpps :
                      /\ SameTriple(arbitrageOpps[id],
                                    StorageOpp(arbitrageRoutes[i]))
                      /\ arbitrageOpps[id].isActive ]_vars

\* call t of getOpportunities is entered in this step
GetStarts(t) ==
    /\ tasks[t].kind = "none"
    /\ tasks'[t].kind = "get"

\* the course of a getOpportunities call is fixed by what it finds when it
\* is entered: with routes in memory it writes them to the store (pc
\* "stored"); without routes it reads the store, and samples the exchanges
\* when the list is empty, returns the list when it is not
WillSample(task) == task.pc = "list" /\ task.existing = << >>

WillReturnStored(task) == task.pc = "list" /\ task.existing # << >>

\* C14: a getOpportunities call entered while the loop is not started
\* refreshes (samples the exchanges) before it returns; a call entered
\* while the loop is running samples nothing, writes nothing to the store
\* and returns the persisted set.
C14_RefreshOnlyWhenStopped ==
    [][ \A t \in TaskIds :
          GetStarts(t) =>
              IF isMonitoring THEN WillReturnStored(tasks'[t])
                              ELSE WillSample(tasks'[t]) ]_vars

(***************************************************************************)
(* Properties of the monitoring loop, checked under SpecMonitor.           *)
(***************************************************************************)
\* C15: at most one monitoring timer exists, and one exists exactly when
\* isMonitoring is true; no step taken while the loop is running and
\* leaving it running (a startMonitoring on a running loop among them)
\* installs or clears a timer, and no step taken while the loop is stopped
\* and leaving it stopped (a stopMonitoring on a stopped loop among them)
\* does.
C15_OneTimerWhileMonitoring ==
    /\ [](/\ monitoringInterval.timers <= 1
          /\ (monitoringInterval.timers = 1) <=> isMonitoring
          /\ monitoringInterval.handle <=> isMonitoring)
    /\ [][ (isMonitoring <=> isMonitoring') =>
               monitoringInterval' = monitoringInterval ]_vars

\* the loop is running on its one timer while two calls that each went
\* through startMonitoring are in flight
C15_Witness ==
    /\ isMonitoring
    /\ monitoringInterval.timers = 1
    /\ \A t \in TaskIds : tasks[t].kind \in { "get", "detect" }

\* the continuations of the getPrices calls of call t run in this step
PricesSettle(t) ==
    /\ tasks[t].pc = "sampling"
    /\ tasks'[t].pending # tasks[t].pending

\* the entry is what the cache holds for an exchange once a result of its
\* getPrices has been written over the entry before
Written(entry, before, exchange) ==
    \E k \in DOMAIN Quotes[exchange] :
        entry = WritePrices(before, Quotes[exchange][k])

\* call t leaves updatePrices in this step: a timer callback and a
\* detectNewOpportunities call go on to detection, a getOpportunities call
\* to its first create
SamplingEnds(t) ==
    /\ tasks[t].pc = "sampling"
    /\ IF tasks[t].kind = "get"
       THEN tasks[t].i = 1 /\ tasks'[t].i # 1
       ELSE tasks'[t].pc # "sampling"

\* C16: in updatePrices a getPrices call that fails leaves the cache entry
\* of its exchange as it was, and in the same step the prices of every
\* exchange whose call did not fail are written; no step clears a cache
\* entry, and a cache entry changes only when a getPrices call on its
\* exchange that did not fail settles; the call leaves updatePrices only
\* when every exchange has settled, and a timer callback then runs
\* detection.
C16_FailureIsLocal ==
    [][ /\ \A t \in TaskIds :
              PricesSettle(t) =>
                  /\ tasks'[t] = [ tasks[t] EXCEPT !.pending = {} ]
                  /\ \A e \in tasks[t].rejected : priceCache'[e] = priceCache[e]
                  /\ \A e \in ExchangeNames \ tasks[t].rejected :
                        Written(priceCache'[e], priceCache[e], e)
        /\ \A e \in ExchangeNames :
              /\ DOMAIN priceCache[e] \subseteq DOMAIN priceCache'[e]
              /\ priceCache'[e] # priceCache[e] =>
                    \E t \in TaskIds :
                        PricesSettle(t) /\ e \notin tasks[t].rejected
        /\ \A t \in TaskIds :
              SamplingEnds(t) =>
                  /\ tasks[t].pending = {}
                  /\ tasks'[t].kind = tasks[t].kind
                  /\ tasks[t].kind \in { "tick", "detect" } =>
                        arbitrageRoutes' =
                            DetectedRoutes(arbitrageRoutes, priceCache, now) ]_vars

\* a tick has gone on to detection after getPrices of Jupiter failed in it:
\* the cache holds the prices Jupiter quoted in an earlier cycle and the
\* prices every other exchange quoted in this one
C16_Witness ==
    /\ \E t \in TaskIds :
          /\ tasks[t].kind = "tick"
          /\ tasks[t].pc \in { "detected", "prune" }
          /\ tasks[t].rejected = { "Jupiter" }
    /\ priceCache["Jupiter"] = Quotes["Jupiter"][2]
    /\ priceCache["Raydium"] = Quotes["Raydium"][1]
    /\ \A e \in ExchangeNames : priceCache[e] # NoPrices

(***************************************************************************)
(* Properties of the performance metrics, checked under SpecMetrics.       *)
(***************************************************************************)
\* C17: the metrics computed on an empty history are all zero: the counts,
\* the success rate ("0.00%"), the total profit ("0.00"), the average
\* execution time and the derived percentage ("0.00%"); the per-asset
\* breakdown and the list of recent executions are empty.
C17_EmptyHistoryAllZero ==
    \A i \in DOMAIN metrics :
        metrics[i].totalExecutions = 0 =>
            /\ metrics[i].successfulExecutions = 0
            /\ metrics[i].successRate = ToFixed(Zero, 2)
            /\ metrics[i].totalProfit = ToFixed(Zero, 2)
            /\ metrics[i].averageExecutionTimeMs = 0
            /\ metrics[i].profitExpectationAccuracy = ToFixed(Zero, 2)
            /\ metrics[i].profitByAsset = << >>
            /\ metrics[i].recentExecutions = << >>

(***************************************************************************)
(* Properties of the scorers, checked under SpecMonitor.                   *)
(***************************************************************************)
\* two calls of the scorers were given the same venue kinds, exchange names
\* and profit percentage
SameInputs(c, d) ==
    /\ c.buyType = d.buyType
    /\ c.sellType = d.sellType
    /\ c.buyExchange = d.buyExchange
    /\ c.sellExchange = d.sellExchange
    /\ c.profitPercentage = d.profitPercentage

MarkedInactive(p) ==
    \/ exec[p].pc \in { "deactivate", "okx" }
    \/ exec[p].result = "Success"

\* C19: an opportunity that executeTrade marked inactive after a successful
\* execution is not set active again by any later step.
C19_ExecutedStaysInactive ==
    [][ \A p \in Attempts :
          ( /\ MarkedInactive(p)
            /\ ~ arbitrageOpps[exec[p].oppId].isActive )
          => ~ arbitrageOpps'[exec[p].oppId].isActive ]_vars

\* C20: of the executeTrade calls in flight on one opportunity at most one
\* has passed validation and sent a leg to an exchange.
C20_OneCallPassesValidation ==
    \A p, q \in Attempts :
        ( /\ p # q
          /\ InFlight(p) /\ InFlight(q)
          /\ exec[p].oppId = exec[q].oppId )
        => ~ (exec[p].legs # << >> /\ exec[q].legs # << >>)

(***************************************************************************)
(* Properties of the slot taken by a request, checked under SpecExec.      *)
(***************************************************************************)
\* executeTrade call p ends in this step with NotFound or Stale
EndsInvalid(p) ==
    /\ exec[p].result = ""
    /\ exec'[p].result \in { "NotFound", "Stale" }

\* C21: a request that ends in NotFound or Stale holds no slot at any time:
\* the step that ends it has no slot to give back, and the counter is the
\* same before and after it.
C21_InvalidRequestHoldsNoSlot ==
    [][ \A p \in Attempts :
          EndsInvalid(p) => activeExecutions' = activeExecutions ]_vars

(***************************************************************************)
(* Properties of a detection cycle.                                        *)
(***************************************************************************)
\* detectArbitrageOpportunities runs in this step
DetectionRuns ==
    \E t \in TaskIds :
        /\ tasks[t].pc = "sampling"
        /\ tasks'[t].pc = "detected"

\* a route for the triple is held
RouteFor(routes, asset, buyExchange, sellExchange) ==
    \E i \in DOMAIN routes :
        /\ routes[i].asset = asset
        /\ routes[i].steps[1].exchange = buyExchange
        /\ routes[i].steps[2].exchange = sellExchange

\* C22: after a detection cycle, for every tracked asset and every ordered
\* pair of distinct exchanges that both have a cached price for it, a route
\* for the triple is held if and only if the pair's net profit percentage
\* is at least minProfitThreshold.
C22_RouteIffProfitable ==
    [][ DetectionRuns =>
          \A a \in DOMAIN monitoredAssets :
            \A b, s \in ExchangeNames :
              ( /\ b # s
                /\ monitoredAssets[a] \in DOMAIN priceCache[b]
                /\ monitoredAssets[a] \in DOMAIN priceCache[s] )
              => ( RouteFor(arbitrageRoutes', monitoredAssets[a], b, s)
                   <=> AtLeast(netProfitPercentage(
                                   priceCache[b][monitoredAssets[a]],
                                   priceCache[s][monitoredAssets[a]],
                                   getExchangeType(b), getExchangeType(s)),
                               minProfitThreshold) ) ]_vars

\* C23: after a detection cycle every route held carries the prices the
\* cycle read from the cache for its asset and exchanges, and the profit
\* computed from them: a route of an earlier cycle is not kept with its old
\* prices.
C23_RoutesCarryCyclePrices ==
    [][ DetectionRuns =>
          \A i \in DOMAIN arbitrageRoutes' :
            LET route == arbitrageRoutes'[i]
                buyPrice == priceCache[route.steps[1].exchange][route.asset]
                sellPrice == priceCache[route.steps[2].exchange][route.asset]
            IN  /\ route.steps[1].expectedPrice = buyPrice
                /\ route.steps[2].expectedPrice = sellPrice
                /\ route.estimatedProfitPercentage =
                      netProfitPercentage(buyPrice, sellPrice,
                                          route.steps[1].type,
                                          route.steps[2].type) ]_vars

\* a sync pass settles in this step and leaves no call in flight: the tick
\* that started it is complete (sampled, detected, pruned, synced), and the
\* cache holds the prices that tick sampled
TickCompletes ==
    /\ \E t \in TaskIds : tasks[t].kind = "sync" /\ tasks'[t].kind = "none"
    /\ \A t \in TaskIds : tasks'[t].kind = "none"

\* C24: after a complete monitoring tick every persisted opportunity whose
\* pair, at the prices sampled in that tick, has a net profit percentage
\* below minProfitThreshold is inactive.
C24_UnprofitableInactiveAfterTick ==
    [][ TickCompletes =>
          \A id \in DOMAIN arbitrageOpps' :
              Unprofitable(priceCache', arbitrageOpps'[id])
                  => ~ arbitrageOpps'[id].isActive ]_vars

(***************************************************************************)
(* Properties of the order of a cycle, checked under SpecDetect.           *)
(***************************************************************************)
\* the timer callback t runs pruneExpiredOpportunities and finishes
TickPrunes(t) ==
    /\ tasks[t].kind = "tick"
    /\ tasks[t].pc = "prune"
    /\ tasks'[t].kind = "none"

\* the sync pass has a store write left to issue
WritesLeft(task) ==
    /\ task.kind = "sync"
    /\ \/ ToCreate(task) # {}
       \/ task.j <= Len(task.existing)

\* C25: a tick runs sampling, detection, store sync and pruning in that
\* order: when the callback prunes and finishes, the sync pass it started
\* has no store write left; and no two timer callbacks are running at a
\* time.
C25_TickInOrder ==
    /\ [](Cardinality({ t \in TaskIds : tasks[t].kind = "tick" }) <= 1)
    /\ [][ \A t \in TaskIds :
             TickPrunes(t) => \A u \in TaskIds : ~ WritesLeft(tasks[u]) ]_vars

(***************************************************************************)
(* Properties of concurrent sampling, checked under SpecOverlap.           *)
(***************************************************************************)
\* an updatePrices fan-out of which some continuations have run and some
\* have not
PartlyApplied(task) ==
    /\ task.pc = "sampling"
    /\ task.pending # {}
    /\ task.pending # ExchangeNames

\* C26: when detectArbitrageOpportunities runs, from a tick or from
\* detectNewOpportunities, no updatePrices fan-out is in flight that has
\* written the prices of some exchanges and not yet those of others.
C26_DetectionReadsWholeSample ==
    [][ DetectionRuns => \A u \in TaskIds : ~ PartlyApplied(tasks[u]) ]_vars

\* detection has run in one call while the fan-out of another call was in
\* flight, none of its results written yet
C26_Witness ==
    \E t, u \in TaskIds :
        /\ tasks[t].pc = "detected"
        /\ tasks[u].pc = "sampling"
        /\ tasks[u].pending = ExchangeNames

(***************************************************************************)
(* Properties of the legs of an execution, checked under SpecExec.         *)
(***************************************************************************)
\* C27: the sell leg is placed for the amount the buy leg's trade result
\* reported as filled.
C27_SellsWhatWasBought ==
    \A p \in Attempts :
        Len(exec[p].legs) >= 2 =>
            exec[p].legs[2].amount = exec[p].summary.steps[1].amount

\* a buy leg has been filled and the sell leg has been sent
C27_Witness ==
    \E p \in Attempts :
        /\ Len(exec[p].legs) = 2
        /\ exec[p].legs[2].action = "sell"
        /\ exec[p].summary.steps[1].action = "buy"
        /\ exec[p].summary.steps[1].success
        /\ exec[p].summary.steps[1].amount = defaultAmount

(***************************************************************************)
(* Properties of the execution history, checked under SpecExec.            *)
(***************************************************************************)
\* C28: the execution history is append-only: no step removes an entry or
\* puts another in its place, and the summary an entry refers to keeps
\* every field it had when it was appended, its success flag among them.
C28_HistoryAppendOnly ==
    [][ /\ Len(executionHistory') >= Len(executionHistory)
        /\ \A i \in DOMAIN executionHistory :
              /\ executionHistory'[i] = executionHistory[i]
              /\ exec'[executionHistory[i]].summary
                    = exec[executionHistory[i]].summary ]_vars

\* an execution whose summary was appended with success = true has gone
\* through the store update and the OKX call and has returned, a summary
\* of a later attempt has been appended behind it, and its summary is
\* flagged a success
C28_Witness ==
    \E i, j \in DOMAIN executionHistory :
        /\ i < j
        /\ exec[executionHistory[i]].result = "Success"
        /\ exec[executionHistory[i]].summary.success
        /\ ~ exec[executionHistory[j]].summary.success

(***************************************************************************)
(* Properties of the list getOpportunities returns, checked under          *)
(* SpecMonitor.                                                            *)
(***************************************************************************)
\* getOpportunities reads the store for the list it returns
GetReadsList(t) ==
    /\ tasks'[t].kind = "get"
    /\ tasks'[t].pc = "list"
    /\ tasks[t].pc # "list"

\* C30: every opportunity in the list getOpportunities reads from the store
\* for its result carries the id under which it is stored: looking up its
\* id returns that same opportunity, so executeTrade finds it.
C30_ListedIdFindsRecord ==
    [][ \A t \in TaskIds :
          GetReadsList(t) =>
            \A k \in DOMAIN tasks'[t].existing :
              getArbitrageOpportunity(tasks'[t].existing[k].id)
                 = << tasks'[t].existing[k] >> ]_vars

====
